---- MODULE Spec2Model ----
(***************************************************************************)
(* Time-window extraction of the email-campaign analyst.                   *)
(*                                                                         *)
(* Three implementations are modelled from the source:                     *)
(*   simple   - SimpleTimeParser (src/src/simple_nlp.py), the global       *)
(*              instance behind parse_time_simple;                         *)
(*   advanced - AdvancedTimeParser (src/src/advanced_nlp.py) with the      *)
(*              optional spaCy / sentence-transformer models not loaded;   *)
(*   cli      - extract_time_window_advanced (src/src/cli.py).             *)
(*                                                                         *)
(* A datetime is a record of a proleptic Gregorian day ordinal, a second   *)
(* of the day, a microsecond and a timezone-awareness flag, with the       *)
(* arithmetic of Python's datetime / timedelta.  A question is a sequence  *)
(* of tokens; regular expressions are matched over tokens.                 *)
(***************************************************************************)
EXTENDS Integers, Sequences, FiniteSets, TLC

VARIABLES clock, ticks, patterns, calls, exprs, dd, ans, svc

vars == <<clock, ticks, patterns, calls, exprs, dd, ans, svc>>

----------------------------------------------------------------------------
(* Python values *)

None == [k |-> "none"]

Raise(e) == [k |-> "raise", exc |-> e]

IsRaise(v) == v.k = "raise"

IsNone(v) == v.k = "none"

----------------------------------------------------------------------------
(* datetime: calendar arithmetic as in the standard library *)

SecPerDay == 86400

UsPerSec == 1000000

MinOrdinal == 1

MaxOrdinal == 3652059

MaxDeltaDays == 999999999

DAYS_IN_MONTH == <<31, 28, 31, 30, 31, 30, 31, 31, 30, 31, 30, 31>>

DAYS_BEFORE_MONTH == <<0, 31, 59, 90, 120, 151, 181, 212, 243, 273, 304, 334>>

IsLeap(y) == y % 4 = 0 /\ (y % 100 # 0 \/ y % 400 = 0)

DaysBeforeYear(y) ==
  LET y1 == y - 1 IN y1 * 365 + (y1 \div 4) - (y1 \div 100) + (y1 \div 400)

DaysInMonth(y, m) == IF m = 2 /\ IsLeap(y) THEN 29 ELSE DAYS_IN_MONTH[m]

DaysBeforeMonth(y, m) ==
  DAYS_BEFORE_MONTH[m] + (IF m > 2 /\ IsLeap(y) THEN 1 ELSE 0)

ValidYmd(y, m, d) ==
  /\ y >= 1 /\ y <= 9999
  /\ m >= 1 /\ m <= 12
  /\ d >= 1 /\ d <= DaysInMonth(y, m)

Ymd2Ord(y, m, d) == DaysBeforeYear(y) + DaysBeforeMonth(y, m) + d

\* _ord2ymd: the divmod chain over 400-, 100-, 4- and 1-year cycles, then the
\* month estimate (n + 50) >> 5 corrected by the days that precede it
Ord2Ymd(ord) ==
  LET InYear(year, leap, n, m0) ==
        LET Preceding(mm) == DAYS_BEFORE_MONTH[mm] + (IF mm > 2 /\ leap THEN 1 ELSE 0)
        IN  IF Preceding(m0) > n
            THEN [y |-> year, m |-> m0 - 1, d |-> n - Preceding(m0 - 1) + 1]
            ELSE [y |-> year, m |-> m0, d |-> n - Preceding(m0) + 1]
      Cycle1(n400, n100, n4, n1, n) ==
        IF n1 = 4 \/ n100 = 4
        THEN [y |-> n400 * 400 + n100 * 100 + n4 * 4 + n1, m |-> 12, d |-> 31]
        ELSE InYear(n400 * 400 + 1 + n100 * 100 + n4 * 4 + n1,
                    n1 = 3 /\ (n4 # 24 \/ n100 = 3), n, (n + 50) \div 32)
      Cycle4(n400, n100, n4, r4) == Cycle1(n400, n100, n4, r4 \div 365, r4 % 365)
      Cycle100(n400, n100, r100) == Cycle4(n400, n100, r100 \div 1461, r100 % 1461)
      Cycle400(n400, r400) == Cycle100(n400, r400 \div 36524, r400 % 36524)
  IN  Cycle400((ord - 1) \div 146097, (ord - 1) % 146097)

Dt(d, s, u, tz) == [k |-> "dt", d |-> d, s |-> s, u |-> u, tz |-> tz]

DtYmd(y, m, d, s, u) == Dt(Ymd2Ord(y, m, d), s, u, FALSE)

\* datetime.min, the sentinel of _deduplicate_expressions
DtMin == Dt(MinOrdinal, 0, 0, FALSE)

Weekday(dt) == (dt.d + 6) % 7

Year(dt) == Ord2Ymd(dt.d).y

Month(dt) == Ord2Ymd(dt.d).m

Day(dt) == Ord2Ymd(dt.d).d

\* dt.replace(hour=h, minute=m, second=s): the microsecond is kept
ReplaceHMS(dt, s) == [dt EXCEPT !.s = s]

\* dt.replace(hour=h, minute=m, second=s, microsecond=u)
ReplaceHMSU(dt, s, u) == [dt EXCEPT !.s = s, !.u = u]

\* dt.replace(year=y, month=m, day=d); ValueError when the date does not exist
ReplaceYmd(dt, y, m, d) ==
  IF ValidYmd(y, m, d) THEN [dt EXCEPT !.d = Ymd2Ord(y, m, d)]
  ELSE Raise("ValueError")

\* dt - timedelta(days=n); OverflowError outside timedelta / datetime range
MinusDays(dt, n) ==
  IF n > MaxDeltaDays \/ dt.d - n < MinOrdinal \/ dt.d - n > MaxOrdinal
  THEN Raise("OverflowError")
  ELSE [dt EXCEPT !.d = dt.d - n]

\* dt - timedelta(seconds=1), for a dt at 00:00:00
MinusOneSecond(dt) ==
  IF dt.s >= 1 THEN [dt EXCEPT !.s = dt.s - 1]
  ELSE IF dt.d - 1 < MinOrdinal THEN Raise("OverflowError")
  ELSE [dt EXCEPT !.d = dt.d - 1, !.s = SecPerDay - 1]

\* timedelta in normal form: 0 <= secs < 86400, 0 <= us < 1000000
TdNorm(days, secs, us) ==
  LET s2 == secs + (us \div UsPerSec)
  IN  [days |-> days + (s2 \div SecPerDay), secs |-> s2 % SecPerDay,
       us |-> us % UsPerSec]

\* a - b; TypeError for an offset-naive and an offset-aware operand
DtSub(a, b) ==
  IF a.tz # b.tz THEN Raise("TypeError")
  ELSE [k |-> "td"] @@ TdNorm(a.d - b.d, a.s - b.s, a.u - b.u)

TdAbs(td) ==
  IF td.days < 0 THEN [k |-> "td"] @@ TdNorm(-td.days, -td.secs, -td.us) ELSE td

\* td < timedelta(minutes=1), for td >= 0
TdUnderMinute(td) == td.days = 0 /\ td.secs < 60

\* a < b on datetimes of equal awareness
DtLt(a, b) ==
  \/ a.d < b.d
  \/ a.d = b.d /\ a.s < b.s
  \/ a.d = b.d /\ a.s = b.s /\ a.u < b.u

DtLe(a, b) == ~DtLt(b, a)

\* a < b as Python evaluates it: TypeError when awareness differs
DtCmpLt(a, b) == IF a.tz # b.tz THEN Raise("TypeError") ELSE [k |-> "bool", v |-> DtLt(a, b)]

----------------------------------------------------------------------------
(* Questions: sequences of tokens *)

Tok(k, w, n, len, y, m, d, s, tz) ==
  [k |-> k, y |-> y, m |-> m, d |-> d, n |-> n, s |-> s, tz |-> tz, w |-> w, len |-> len]

\* a word
W(w) == Tok("w", w, 0, 0, 0, 0, 0, 0, FALSE)

\* a run of digits of value n written with len digits
Num(n, len) == Tok("num", "", n, len, 0, 0, 0, 0, FALSE)

\* YYYY-MM-DD
Date(y, m, d) == Tok("date", "", 0, 0, y, m, d, 0, FALSE)

\* YYYY-MM-DDTHH:MM:SS, with a trailing Z when tz
DateTime(y, m, d, s, tz) == Tok("datetime", "", 0, 0, y, m, d, s, tz)

\* a month name
MonthName(m) == Tok("month", "", 0, 0, 0, m, 0, 0, FALSE)

Words(ws) == [i \in 1..Len(ws) |-> W(ws[i])]

SubSeqFrom(q, i) == SubSeq(q, i, Len(q))

----------------------------------------------------------------------------
(* dateutil.parser.parse(text, fuzzy=True) over a token sequence.           *)
(* today is the clock reading that supplies the default date.              *)

ParseFail == [k |-> "fail"]

IsDateBearing(t) == t.k \in {"num", "date", "datetime", "month"}

DateBearing(toks) == SelectSeq(toks, IsDateBearing)

\* a bare number above 100 is labelled a year by _ymd.append
IsYearNum(t) == t.n > 100

\* default.replace(year, month, day) of _build_naive: a missing day is
\* clamped to the month's length, a given one is not
BuildNaive(today, y, m, d) ==
  LET Replace(def, yy, mm) ==
        IF ~(yy >= 1 /\ yy <= 9999 /\ mm >= 1 /\ mm <= 12) THEN ParseFail
        ELSE LET Build(dd0) ==
                   IF ValidYmd(yy, mm, dd0) THEN Dt(Ymd2Ord(yy, mm, dd0), 0, 0, FALSE)
                   ELSE ParseFail
             IN  Build(IF d # 0 - 1 THEN d
                       ELSE IF def.d > DaysInMonth(yy, mm) THEN DaysInMonth(yy, mm)
                       ELSE def.d)
      Default(def) ==
        Replace(def, IF y = 0 - 1 THEN def.y ELSE y, IF m = 0 - 1 THEN def.m ELSE m)
  IN  Default(Ord2Ymd(today.d))

\* resolve_ymd for bare numbers and at most one month name
ResolveYmd(today, months, nums) ==
  LET NA == 0 - 1
      Build(ymd) == BuildNaive(today, ymd[1], ymd[2], ymd[3])
  IN
  IF Len(months) > 1 THEN ParseFail                \* Month is already set
  ELSE IF Len(SelectSeq(nums, IsYearNum)) > 1 THEN ParseFail  \* Year is already set
  ELSE IF Len(months) + Len(nums) > 2 THEN ParseFail \* fragments of three values are not explored
  ELSE IF Len(months) = 0 /\ Len(nums) = 0 THEN ParseFail  \* no date in the string
  ELSE Build(
    IF Len(months) = 1 /\ Len(nums) = 0 THEN <<NA, months[1].m, NA>>
    ELSE IF Len(months) = 1 /\ Len(nums) = 1
         THEN IF nums[1].n > 31 THEN <<nums[1].n, months[1].m, NA>>
              ELSE <<NA, months[1].m, nums[1].n>>
    ELSE IF Len(months) = 0 /\ Len(nums) = 1
         THEN IF nums[1].n > 31 THEN <<nums[1].n, NA, NA>>
              ELSE <<NA, NA, nums[1].n>>
    ELSE IF nums[1].n > 31 THEN <<nums[1].n, nums[2].n, NA>>
         ELSE IF nums[2].n > 31 THEN <<nums[2].n, nums[1].n, NA>>
         ELSE <<NA, nums[1].n, nums[2].n>>)

IsDateTok(t) == t.k \in {"date", "datetime"}

IsMonthTok(t) == t.k = "month"

IsNumTok(t) == t.k = "num"

FuzzyParse(toks, today) ==
  LET OneDate(t) ==
        IF ValidYmd(t.y, t.m, t.d) THEN Dt(Ymd2Ord(t.y, t.m, t.d), t.s, 0, t.tz)
        ELSE ParseFail
      Parse(db, dates) ==
        IF Len(dates) = 0
        THEN ResolveYmd(today, SelectSeq(db, IsMonthTok), SelectSeq(db, IsNumTok))
        ELSE IF Len(db) > 1 THEN ParseFail
        ELSE OneDate(dates[1])
      Tokens(db) == Parse(db, SelectSeq(db, IsDateTok))
  IN  Tokens(DateBearing(toks))

IsFail(v) == v.k = "fail"

----------------------------------------------------------------------------
(* Regular expressions over tokens *)

Ws(ws) == [m |-> 0, ws |-> ws, t |-> "w"]

NumEl == [m |-> 0, ws |-> {}, t |-> "num"]

\* \d{1,3}
Num3El == [m |-> 0, ws |-> {}, t |-> "num3"]

\* \d{4}
Num4El == [m |-> 0, ws |-> {}, t |-> "num4"]

\* \d{4}-\d{2}-\d{2}\b
DateEl == [m |-> 0, ws |-> {}, t |-> "date"]

\* ([^,]+?)(?:\s|$): the next token
AnyEl == [m |-> 0, ws |-> {}, t |-> "any"]

MonthEl(m) == [m |-> m, ws |-> {}, t |-> "month"]

ElMatch(el, tok) ==
  CASE el.t = "w"     -> tok.k = "w" /\ tok.w \in el.ws
    [] el.t = "num"   -> tok.k = "num"
    [] el.t = "num3"  -> tok.k = "num" /\ tok.len <= 3
    [] el.t = "num4"  -> tok.k = "num" /\ tok.len = 4
    [] el.t = "date"  -> tok.k = "date"
    [] el.t = "month" -> tok.k = "month" /\ tok.m = el.m
    [] el.t = "any"   -> TRUE

SetMin(S) == CHOOSE x \in S : \A y \in S : x <= y

NoMatch == [found |-> FALSE, g |-> <<>>]

\* a pattern of consecutive tokens; cap lists the positions of its groups
Fixed(els, cap) == [els |-> els, cap |-> cap, shape |-> "fixed"]

\* head (lazy group 1) mid (group 2: one token, or the rest when greedy)
Range(head, mid, greedy) ==
  [els |-> <<head, mid>>, cap |-> <<>>, shape |-> "range", greedy |-> greedy]

\* head (group 1: the rest of the text)
Rest(head) == [els |-> <<head>>, cap |-> <<>>, shape |-> "rest"]

MatchFixedAt(els, q, i) ==
  /\ i + Len(els) - 1 <= Len(q)
  /\ \A j \in 1..Len(els) : ElMatch(els[j], q[i + j - 1])

\* re.search: the leftmost match and its groups
Search(re, q) ==
  CASE re.shape = "fixed" ->
         LET S == {i \in 1..Len(q) : MatchFixedAt(re.els, q, i)} IN
         IF S = {} THEN NoMatch
         ELSE LET i == SetMin(S) IN
              [found |-> TRUE,
               g |-> [c \in 1..Len(re.cap) |-> <<q[i + re.cap[c] - 1]>>]]
    [] re.shape = "range" ->
         LET J(i) == {j \in (i + 2)..(Len(q) - 1) : ElMatch(re.els[2], q[j])}
             S    == {i \in 1..Len(q) : ElMatch(re.els[1], q[i]) /\ J(i) # {}}
         IN  IF S = {} THEN NoMatch
             ELSE LET i == SetMin(S)
                      j == SetMin(J(i))
                  IN  [found |-> TRUE,
                       g |-> <<SubSeq(q, i + 1, j - 1),
                               IF re.greedy THEN SubSeqFrom(q, j + 1) ELSE <<q[j + 1]>> >>]
    [] re.shape = "rest" ->
         LET S == {i \in 1..(Len(q) - 1) : ElMatch(re.els[1], q[i])} IN
         IF S = {} THEN NoMatch
         ELSE [found |-> TRUE, g |-> <<SubSeqFrom(q, SetMin(S) + 1)>>]

----------------------------------------------------------------------------
(* TimeExpression and the resolvers of SimpleTimeParser *)

TimeExpression(start_date, end_date, confidence, expression_type, entities) ==
  [k |-> "expr", start_date |-> start_date, end_date |-> end_date,
   confidence |-> confidence, expression_type |-> expression_type,
   entities |-> entities]

EndOfDay == SecPerDay - 1

PlusDays(dt, n) == [dt EXCEPT !.d = dt.d + n]

\* a faulty _parse_last_week that counts seven days back from today
\* instead of taking the previous calendar week
parse_last_week_rolling(match, now) ==
  TimeExpression(ReplaceHMS(PlusDays(now, 0 - 7), 0),
                 ReplaceHMS(PlusDays(now, 0 - 1), EndOfDay), 90, "relative", match.g)

parse_last_week(match, now) ==
  LET start_of_this_week == PlusDays(now, 0 - Weekday(now))
      start_of_last_week == PlusDays(start_of_this_week, 0 - 7)
      end_of_last_week   == PlusDays(start_of_last_week, 6)
  IN  TimeExpression(ReplaceHMS(start_of_last_week, 0),
                     ReplaceHMS(end_of_last_week, EndOfDay), 90, "relative", match.g)

parse_this_week(match, now) ==
  LET start_of_this_week == PlusDays(now, 0 - Weekday(now))
  IN  TimeExpression(ReplaceHMS(start_of_this_week, 0), now, 90, "relative", match.g)

parse_last_month(match, now) ==
  LET Emit(last_month) ==
        TimeExpression(PlusDays(last_month, 1 - Day(last_month)),
                       ReplaceHMS(last_month, EndOfDay), 90, "relative", match.g)
      first_of_this_month == ReplaceHMS(PlusDays(now, 1 - Day(now)), 0)
  IN  Emit(PlusDays(first_of_this_month, 0 - 1))

\* a faulty _parse_this_month that counts thirty days back from now
parse_this_month_rolling(match, now) ==
  TimeExpression(ReplaceHMS(PlusDays(now, 0 - 30), 0), now, 90, "relative", match.g)

parse_this_month(match, now) ==
  TimeExpression(ReplaceHMS(PlusDays(now, 1 - Day(now)), 0), now, 90, "relative", match.g)

parse_last_year(match, now) ==
  LET Emit(start_of_this_year, start_of_last_year) ==
        IF IsRaise(start_of_last_year) THEN start_of_last_year
        ELSE TimeExpression(start_of_last_year, MinusOneSecond(start_of_this_year),
                            90, "relative", match.g)
      From(start_of_this_year, year) ==
        Emit(start_of_this_year, ReplaceYmd(start_of_this_year, year - 1, 1, 1))
      At(year) == From(ReplaceHMS(ReplaceYmd(now, year, 1, 1), 0), year)
  IN  At(Year(now))

parse_this_year(match, now) ==
  TimeExpression(ReplaceHMS(ReplaceYmd(now, Year(now), 1, 1), 0), now,
                 90, "relative", match.g)

\* a faulty _parse_yesterday whose window runs on to the present
parse_yesterday_to_now(match, now) ==
  TimeExpression(ReplaceHMS(PlusDays(now, 0 - 1), 0), now, 95, "relative", match.g)

parse_yesterday(match, now) ==
  LET yesterday == PlusDays(now, 0 - 1)
  IN  TimeExpression(ReplaceHMS(yesterday, 0), ReplaceHMS(yesterday, EndOfDay),
                     95, "relative", match.g)

parse_today(match, now) ==
  TimeExpression(ReplaceHMS(now, 0), now, 95, "relative", match.g)

\* start = now - timedelta(days); the window runs from its midnight to now
RelativeWindow(days, now, match) ==
  LET start == MinusDays(now, days)
  IN  IF IsRaise(start) THEN start
      ELSE TimeExpression(ReplaceHMS(start, 0), now, 80, "relative", match.g)

\* a faulty _parse_last_n_days that counts today as the first of the N days
parse_last_n_days_inclusive(match, now) == RelativeWindow(match.g[1][1].n - 1, now, match)

parse_last_n_days(match, now) == RelativeWindow(match.g[1][1].n, now, match)

parse_n_days_ago(match, now) == RelativeWindow(match.g[1][1].n, now, match)

parse_last_n_weeks(match, now) == RelativeWindow(7 * match.g[1][1].n, now, match)

parse_n_weeks_ago(match, now) == RelativeWindow(7 * match.g[1][1].n, now, match)

\* a faulty _parse_last_n_months that takes a month as 31 days
parse_last_n_months_31(match, now) == RelativeWindow(31 * match.g[1][1].n, now, match)

parse_last_n_months(match, now) == RelativeWindow(30 * match.g[1][1].n, now, match)

parse_n_months_ago(match, now) == RelativeWindow(30 * match.g[1][1].n, now, match)

parse_since(match, now) ==
  LET Emit(start_date) ==
        IF IsFail(start_date) THEN None
        ELSE TimeExpression(start_date, now, 80, "range", match.g)
  IN  Emit(FuzzyParse(match.g[1], now))

parse_between(match, now) ==
  LET Compare(start_date, end_date, lt) ==
        IF IsRaise(lt) THEN None             \* swallowed by the bare except
        ELSE IF lt.v THEN None
        ELSE TimeExpression(start_date, ReplaceHMS(end_date, EndOfDay),
                            80, "range", match.g)
      Emit(start_date, end_date) ==
        IF IsFail(start_date) \/ IsFail(end_date) THEN None
        ELSE Compare(start_date, end_date, DtCmpLt(end_date, start_date))
  IN  Emit(FuzzyParse(match.g[1], now), FuzzyParse(match.g[2], now))

parse_from_to(match, now) == parse_between(match, now)

parse_from_until(match, now) == parse_between(match, now)

parse_on_date(match, now) ==
  LET Emit(date) ==
        IF IsFail(date) THEN None
        ELSE TimeExpression(ReplaceHMS(date, 0), ReplaceHMS(date, EndOfDay),
                            70, "absolute", match.g)
  IN  Emit(FuzzyParse(match.g[1], now))

TenYears == 3650

\* abs(td.days)
AbsDays(td) == IF td.days < 0 THEN 0 - td.days ELSE td.days

\* a faulty fallback whose candidate outranks the pattern families
parse_with_dateutil_confident(text, now) ==
  LET Emit(parsed_date) ==
        IF IsFail(parsed_date) \/ parsed_date.tz THEN None
        ELSE TimeExpression(parsed_date, parsed_date, 99, "absolute", <<text>>)
  IN  Emit(FuzzyParse(text, now))

\* _parse_with_dateutil: the fuzzy fallback over the whole text
parse_with_dateutil(text, now) ==
  LET Near(parsed_date, delta) ==
        IF IsRaise(delta) THEN None          \* swallowed by the bare except
        ELSE IF AbsDays(delta) < TenYears
        THEN TimeExpression(parsed_date, parsed_date, 60, "absolute", <<text>>)
        ELSE None
      Emit(parsed_date) ==
        IF IsFail(parsed_date) THEN None
        ELSE Near(parsed_date, DtSub(parsed_date, now))
  IN  Emit(FuzzyParse(text, now))

CallParser(func, match, now) ==
  CASE func = "_parse_last_week"     -> parse_last_week(match, now)
    [] func = "_parse_this_week"     -> parse_this_week(match, now)
    [] func = "_parse_last_month"    -> parse_last_month(match, now)
    [] func = "_parse_this_month"    -> parse_this_month(match, now)
    [] func = "_parse_last_year"     -> parse_last_year(match, now)
    [] func = "_parse_this_year"     -> parse_this_year(match, now)
    [] func = "_parse_yesterday"     -> parse_yesterday(match, now)
    [] func = "_parse_today"         -> parse_today(match, now)
    [] func = "_parse_last_n_days"   -> parse_last_n_days(match, now)
    [] func = "_parse_n_days_ago"    -> parse_n_days_ago(match, now)
    [] func = "_parse_last_n_weeks"  -> parse_last_n_weeks(match, now)
    [] func = "_parse_n_weeks_ago"   -> parse_n_weeks_ago(match, now)
    [] func = "_parse_last_n_months" -> parse_last_n_months(match, now)
    [] func = "_parse_n_months_ago"  -> parse_n_months_ago(match, now)
    [] func = "_parse_since"         -> parse_since(match, now)
    [] func = "_parse_between"       -> parse_between(match, now)
    [] func = "_parse_from_to"       -> parse_from_to(match, now)
    [] func = "_parse_from_until"    -> parse_from_until(match, now)
    [] func = "_parse_on_date"       -> parse_on_date(match, now)

Pat(re, func, conf) == [re |-> re, func |-> func, conf |-> conf]

Two(a, b) == Fixed(<<Ws({a}), Ws({b})>>, <<>>)

One(a) == Fixed(<<Ws({a})>>, <<>>)

\* \ba\s+(\d+)\s+units?\b
LastN(a, unit, units) == Fixed(<<Ws({a}), NumEl, Ws({unit, units})>>, <<2>>)

\* \b(\d+)\s+units?\s+ago\b
NAgo(unit, units) == Fixed(<<NumEl, Ws({unit, units}), Ws({"ago"})>>, <<1>>)

\* self.patterns of SimpleTimeParser.__init__, confidences in hundredths
PatternTable ==
  << Pat(Two("last", "week"), "_parse_last_week", 90),
     Pat(Two("previous", "week"), "_parse_last_week", 90),
     Pat(Two("past", "week"), "_parse_last_week", 80),
     Pat(Two("this", "week"), "_parse_this_week", 90),
     Pat(Two("current", "week"), "_parse_this_week", 80),
     Pat(Two("last", "month"), "_parse_last_month", 90),
     Pat(Two("previous", "month"), "_parse_last_month", 90),
     Pat(Two("past", "month"), "_parse_last_month", 80),
     Pat(Two("this", "month"), "_parse_this_month", 90),
     Pat(Two("current", "month"), "_parse_this_month", 80),
     Pat(Two("last", "year"), "_parse_last_year", 90),
     Pat(Two("previous", "year"), "_parse_last_year", 90),
     Pat(Two("past", "year"), "_parse_last_year", 80),
     Pat(Two("this", "year"), "_parse_this_year", 90),
     Pat(Two("current", "year"), "_parse_this_year", 80),
     Pat(One("yesterday"), "_parse_yesterday", 95),
     Pat(Two("day", "before"), "_parse_yesterday", 80),
     Pat(Two("previous", "day"), "_parse_yesterday", 80),
     Pat(One("today"), "_parse_today", 95),
     Pat(Two("current", "day"), "_parse_today", 80),
     Pat(Two("present", "day"), "_parse_today", 70),
     Pat(LastN("last", "day", "days"), "_parse_last_n_days", 80),
     Pat(LastN("past", "day", "days"), "_parse_last_n_days", 80),
     Pat(NAgo("day", "days"), "_parse_n_days_ago", 80),
     Pat(LastN("last", "week", "weeks"), "_parse_last_n_weeks", 80),
     Pat(LastN("past", "week", "weeks"), "_parse_last_n_weeks", 80),
     Pat(NAgo("week", "weeks"), "_parse_n_weeks_ago", 80),
     Pat(LastN("last", "month", "months"), "_parse_last_n_months", 80),
     Pat(LastN("past", "month", "months"), "_parse_last_n_months", 80),
     Pat(NAgo("month", "months"), "_parse_n_months_ago", 80),
     Pat(Fixed(<<Ws({"since"}), AnyEl>>, <<2>>), "_parse_since", 80),
     Pat(Range(Ws({"between"}), Ws({"and"}), FALSE), "_parse_between", 80),
     Pat(Range(Ws({"from"}), Ws({"to"}), FALSE), "_parse_from_to", 80),
     Pat(Range(Ws({"from"}), Ws({"until"}), FALSE), "_parse_from_until", 80),
     Pat(Fixed(<<Ws({"on"}), AnyEl>>, <<2>>), "_parse_on_date", 70) >>

----------------------------------------------------------------------------
(* The Ambiguity Reducer: _deduplicate_expressions, the confidence sort and *)
(* get_best_time_window (the same code in both parser classes)             *)

OrMin(d) == IF IsNone(d) THEN DtMin ELSE d

\* the duplicate test of the inner loop, with Python's short-circuit "and":
\* "dup", "distinct", or "raise" when a subtraction mixes naive and aware
DupCheck(expr, unique_expr) ==
  LET ds == DtSub(OrMin(expr.start_date), OrMin(unique_expr.start_date)) IN
  IF IsRaise(ds) THEN "raise"
  ELSE IF ~TdUnderMinute(TdAbs(ds)) THEN "distinct"
  ELSE LET de == DtSub(OrMin(expr.end_date), OrMin(unique_expr.end_date)) IN
       IF IsRaise(de) THEN "raise"
       ELSE IF TdUnderMinute(TdAbs(de)) THEN "dup" ELSE "distinct"

RemoveAt(seq, j) == SubSeq(seq, 1, j - 1) \o SubSeq(seq, j + 1, Len(seq))

RECURSIVE FirstDup(_, _, _)
\* the position in unique, from i on, where the inner loop breaks; 0 when it
\* runs to the end; -1 when a comparison raises first
FirstDup(expr, unique, i) ==
  IF i > Len(unique) THEN 0
  ELSE LET c == DupCheck(expr, unique[i]) IN
       IF c = "raise" THEN 0 - 1
       ELSE IF c = "dup" THEN i
       ELSE FirstDup(expr, unique, i + 1)

\* what one pass of the outer loop does to unique_expressions
DedupStep(unique, expr, j) ==
  IF j = 0 THEN Append(unique, expr)
  ELSE IF expr.confidence > unique[j].confidence
       THEN Append(RemoveAt(unique, j), expr)
       ELSE unique

List(v) == [k |-> "list", v |-> v]

RECURSIVE DedupLoop(_, _, _)
DedupLoop(expressions, i, unique) ==
  IF i > Len(expressions) THEN List(unique)
  ELSE LET j == FirstDup(expressions[i], unique, 1) IN
       IF j = 0 - 1 THEN Raise("TypeError")
       ELSE DedupLoop(expressions, i + 1, DedupStep(unique, expressions[i], j))

\* the list returned, or the exception that leaves the function
deduplicate_expressions(expressions) == DedupLoop(expressions, 1, <<>>)

\* a faulty sort that leaves out reverse=True: ascending, stable
InsertAsc(sorted, e) ==
  LET n == Cardinality({i \in 1..Len(sorted) : sorted[i].confidence <= e.confidence})
  IN  SubSeq(sorted, 1, n) \o <<e>> \o SubSeq(sorted, n + 1, Len(sorted))

\* a faulty sort that is not stable: e goes before the elements of its own
\* confidence
InsertBeforeEqual(sorted, e) ==
  LET n == Cardinality({i \in 1..Len(sorted) : sorted[i].confidence > e.confidence})
  IN  SubSeq(sorted, 1, n) \o <<e>> \o SubSeq(sorted, n + 1, Len(sorted))

\* the position sorted(..., reverse=True) gives e among the already placed
\* elements: after every element of confidence >= its own (the sort is stable)
InsertDesc(sorted, e) ==
  LET n == Cardinality({i \in 1..Len(sorted) : sorted[i].confidence >= e.confidence})
  IN  SubSeq(sorted, 1, n) \o <<e>> \o SubSeq(sorted, n + 1, Len(sorted))

RECURSIVE SortLoop(_, _, _)
SortLoop(l, i, acc) ==
  IF i > Len(l) THEN acc ELSE SortLoop(l, i + 1, InsertDesc(acc, l[i]))

SortByConfidence(l) == SortLoop(l, 1, <<>>)

\* the tail of parse_time_expression: deduplicate, then sort
RankExpressions(expressions) ==
  LET Sort(unique_expressions) ==
        IF IsRaise(unique_expressions) THEN unique_expressions
        ELSE List(SortByConfidence(unique_expressions.v))
  IN  Sort(deduplicate_expressions(expressions))

Window(start, end) == [k |-> "window", start |-> start, end |-> end]

NoWindow == Window(None, None)

\* a faulty get_best_time_window without the "if not expressions" guard
BestWindowUnguarded(expressions) ==
  IF IsRaise(expressions) THEN expressions
  ELSE IF Len(expressions.v) = 0 THEN Raise("IndexError")
  ELSE Window(expressions.v[1].start_date, expressions.v[1].end_date)

\* get_best_time_window, given what parse_time_expression returned
BestWindow(expressions) ==
  IF IsRaise(expressions) THEN expressions
  ELSE IF Len(expressions.v) = 0 THEN NoWindow
  ELSE Window(expressions.v[1].start_date, expressions.v[1].end_date)

----------------------------------------------------------------------------
(* SimpleTimeParser.parse_time_expression, one pattern at a time *)

\* the next entry of the table, from pc on, whose pattern matches; 0 if none
NextMatch(table, text, pc) ==
  LET S == {i \in pc..Len(table) : Search(table[i].re, text).found}
  IN  IF S = {} THEN 0 ELSE SetMin(S)

\* a faulty loop body that gives up the candidates collected so far when a
\* resolver returns no expression
PatternBodyAborting(entry, text, now, expressions) ==
  LET Collect(expr) ==
        IF expr.k = "expr"
        THEN Append(expressions, [expr EXCEPT !.confidence = entry.conf])
        ELSE <<>>
  IN  Collect(CallParser(entry.func, Search(entry.re, text), now))

\* the loop body for a matching entry: the resolver runs at clock reading now;
\* None and exceptions leave the list as it is, an expression is appended with
\* the table's confidence written over its own
PatternBody(entry, text, now, expressions) ==
  LET Collect(expr) ==
        IF expr.k = "expr"
        THEN Append(expressions, [expr EXCEPT !.confidence = entry.conf])
        ELSE expressions
  IN  Collect(CallParser(entry.func, Search(entry.re, text), now))

\* "if not expressions": the fuzzy fallback joins an empty list
FallbackStage(text, now, expressions) ==
  LET Collect(expr) ==
        IF Len(expressions) = 0 /\ expr.k = "expr"
        THEN Append(expressions, expr) ELSE expressions
  IN  Collect(parse_with_dateutil(text, now))

\* the end of parse_time_expression, once the patterns are exhausted
SimpleTail(text, now, expressions) ==
  RankExpressions(FallbackStage(text, now, expressions))

RECURSIVE SimpleLoop(_, _, _, _, _)
\* parse_time_expression run alone, its k-th clock read returning nows[k]
SimpleLoop(table, text, pc, nows, expressions) ==
  LET i == NextMatch(table, text, pc) IN
  IF i = 0 THEN SimpleTail(text, Head(nows), expressions)
  ELSE SimpleLoop(table, text, i + 1, Tail(nows),
                  PatternBody(table[i], text, Head(nows), expressions))

\* get_best_time_window / parse_time_simple run alone
SimpleAlone(table, text, nows) == BestWindow(SimpleLoop(table, text, 1, nows, <<>>))

----------------------------------------------------------------------------
(* AdvancedTimeParser with self.nlp and self.similarity_model unset *)

\* relative_patterns, in the order the nested loops visit them
AgoUnits ==
  << [unit |-> "days", pattern |-> "days"], [unit |-> "days", pattern |-> "day"],
     [unit |-> "days", pattern |-> "d"],
     [unit |-> "weeks", pattern |-> "weeks"], [unit |-> "weeks", pattern |-> "week"],
     [unit |-> "weeks", pattern |-> "w"],
     [unit |-> "months", pattern |-> "months"], [unit |-> "months", pattern |-> "month"],
     [unit |-> "months", pattern |-> "m"],
     [unit |-> "years", pattern |-> "years"], [unit |-> "years", pattern |-> "year"],
     [unit |-> "years", pattern |-> "y"] >>

UnitDays(unit) ==
  CASE unit = "days" -> 1 [] unit = "weeks" -> 7 [] unit = "months" -> 30
    [] unit = "years" -> 365

\* f" {pattern} ago" in text.lower()
HasAgo(text, pattern) ==
  \E i \in 2..(Len(text) - 1) : text[i] = W(pattern) /\ text[i + 1] = W("ago")

RECURSIVE AgoLoop(_, _, _, _)
\* the second try block of _parse_with_dateutil: an exception ends the loops
AgoLoop(text, now, i, expressions) ==
  IF i > Len(AgoUnits) THEN expressions
  ELSE LET u == AgoUnits[i]
           m == Search(Fixed(<<NumEl, Ws({u.pattern}), Ws({"ago"})>>, <<1>>), text)
       IN  IF ~(HasAgo(text, u.pattern) /\ m.found)
           THEN AgoLoop(text, now, i + 1, expressions)
           ELSE LET start == MinusDays(now, m.g[1][1].n * UnitDays(u.unit)) IN
                IF IsRaise(start) THEN expressions
                ELSE AgoLoop(text, now, i + 1,
                       Append(expressions,
                              TimeExpression(start, now, 80, "relative", <<text>>)))

adv_parse_with_dateutil(text, now) ==
  LET Near(parsed_date, delta) ==
        IF delta.k = "td" /\ AbsDays(delta) < TenYears
        THEN <<TimeExpression(parsed_date, parsed_date, 70, "absolute", <<text>>)>>
        ELSE <<>>
      First(parsed_date) ==
        IF IsFail(parsed_date) THEN <<>>
        ELSE Near(parsed_date, DtSub(parsed_date, now))
  IN  AgoLoop(text, now, 1, First(FuzzyParse(text, now)))

\* the "between" block emits the parsed range without comparing its ends
adv_between(text, now) ==
  LET Emit(groups, start_date, end_date) ==
        IF IsFail(start_date) \/ IsFail(end_date) THEN <<>>
        ELSE <<TimeExpression(start_date, end_date, 80, "range", groups)>>
      Parse(between_match) ==
        IF ~between_match.found THEN <<>>
        ELSE Emit(between_match.g, FuzzyParse(between_match.g[1], now),
                  FuzzyParse(between_match.g[2], now))
  IN  Parse(Search(Range(Ws({"between"}), Ws({"and"}), TRUE), text))

adv_since(text, now) ==
  LET Emit(groups, since_date) ==
        IF IsFail(since_date) THEN <<>>
        ELSE <<TimeExpression(since_date, now, 80, "range", groups)>>
      Parse(since_match) ==
        IF ~since_match.found THEN <<>>
        ELSE Emit(since_match.g, FuzzyParse(since_match.g[1], now))
  IN  Parse(Search(Rest(Ws({"since"})), text))

adv_parse_with_context_patterns(text, now) == adv_since(text, now) \o adv_between(text, now)

\* AdvancedTimeParser.get_best_time_window run alone: now1 is read by
\* _parse_with_dateutil, now2 by _parse_with_context_patterns
AdvancedAlone(text, now1, now2) ==
  BestWindow(RankExpressions(adv_parse_with_dateutil(text, now1)
                             \o adv_parse_with_context_patterns(text, now2)))

\* the keys of self.time_patterns
PatternTypes ==
  {"last_week", "this_week", "last_month", "this_month", "last_year", "this_year",
   "yesterday", "today", "tomorrow"}

\* _create_expression_from_pattern: the resolver of the semantic-similarity
\* method, called with the key of the pattern group that matched
create_expression_from_pattern(pattern_type, now) ==
  LET Expr(start, end, conf) == TimeExpression(start, end, conf, "relative", <<>>)
      LastWeek(start) ==
        Expr(ReplaceHMS(start, 0), ReplaceHMS(PlusDays(start, 6), EndOfDay), 80)
      Yesterday(yesterday) ==
        Expr(ReplaceHMS(yesterday, 0), ReplaceHMS(yesterday, EndOfDay), 90)
      \* now.replace(day=1) keeps the time of day of now
      LastMonth(first, last) ==
        Expr(PlusDays(last, 1 - Day(last)), MinusOneSecond(first), 80)
      FromFirst(first) == LastMonth(first, PlusDays(first, 0 - 1))
  IN  CASE pattern_type = "last_week" -> LastWeek(PlusDays(now, 0 - (Weekday(now) + 7)))
        [] pattern_type = "this_week" ->
             Expr(ReplaceHMS(PlusDays(now, 0 - Weekday(now)), 0), now, 80)
        [] pattern_type = "last_month" -> FromFirst(PlusDays(now, 1 - Day(now)))
        [] pattern_type = "this_month" ->
             Expr(ReplaceHMS(PlusDays(now, 1 - Day(now)), 0), now, 80)
        [] pattern_type = "yesterday" -> Yesterday(PlusDays(now, 0 - 1))
        [] pattern_type = "today" -> Expr(ReplaceHMS(now, 0), now, 90)
        [] OTHER -> None

----------------------------------------------------------------------------
(* cli.extract_time_window_advanced: the first pattern that matches returns. *)
(* The two ISO strings it returns are kept as the datetimes they print.     *)

start_of_day(dt) == ReplaceHMSU(dt, 0, 0)

end_of_day(dt) == ReplaceHMSU(dt, EndOfDay, 999999)

CliFound(els, q) == Search(Fixed(els, <<>>), q).found

\* the capture groups of a cli pattern, as tokens
CliGroups(els, cap, q) == Search(Fixed(els, cap), q).g

\* month_names, in the order of the dictionary (one name per month here)
RECURSIVE CliMonths(_, _, _)
CliMonths(q, now, month_num) ==
  LET \* datetime(year, month_num, 1) and datetime(year + 1, 1, 1) are not guarded
      InMonth(year) ==
        IF year < 1 \/ year > 9999 THEN Raise("ValueError")
        ELSE IF month_num = 12
             THEN IF year + 1 > 9999 THEN Raise("ValueError")
                  ELSE Window(DtYmd(year, 12, 1, 0, 0),
                              MinusOneSecond(DtYmd(year + 1, 1, 1, 0, 0)))
             ELSE Window(DtYmd(year, month_num, 1, 0, 0),
                         MinusOneSecond(DtYmd(year, month_num + 1, 1, 0, 0)))
      WithYear(year_match) ==
        InMonth(IF year_match.found THEN year_match.g[1][1].n ELSE Year(now))
  IN  IF month_num > 12 THEN NoWindow
      ELSE IF ~CliFound(<<Ws({"in", "during"}), MonthEl(month_num)>>, q)
           THEN CliMonths(q, now, month_num + 1)
      ELSE WithYear(Search(Fixed(<<Ws({"in", "during"}), MonthEl(month_num), Num4El>>,
                                 <<3>>), q))

\* patterns 13-15: a reversed range returns (None, None) at once; a date that
\* does not parse falls through to rest
CliRange(head, mid, q, now, rest) ==
  LET Emit(start, end) ==
        IF IsFail(start) \/ IsFail(end) THEN rest
        ELSE IF DtLt(end, start) THEN NoWindow
        ELSE Window(start, end_of_day(end))
      Parse(m) ==
        IF ~m.found THEN rest
        ELSE Emit(FuzzyParse(m.g[1], now), FuzzyParse(m.g[2], now))
  IN  Parse(Search(Fixed(<<Ws({head}), DateEl, Ws({mid}), DateEl>>, <<2, 4>>), q))

CliFromUntil(q, now) == CliRange("from", "until", q, now, CliMonths(q, now, 1))

CliFromTo(q, now) == CliRange("from", "to", q, now, CliFromUntil(q, now))

CliBetween(q, now) == CliRange("between", "and", q, now, CliFromTo(q, now))

CliOn(q, now) ==
  LET Emit(date) ==
        IF IsFail(date) THEN CliBetween(q, now)
        ELSE Window(start_of_day(date), end_of_day(date))
      Parse(m) == Emit(IF m.found THEN FuzzyParse(m.g[1], now) ELSE ParseFail)
  IN  Parse(Search(Fixed(<<Ws({"on"}), DateEl>>, <<2>>), q))

CliSince(q, now) ==
  LET Emit(start) == IF IsFail(start) THEN CliOn(q, now) ELSE Window(start, now)
      Parse(m) == Emit(IF m.found THEN FuzzyParse(m.g[1], now) ELSE ParseFail)
  IN  Parse(Search(Fixed(<<Ws({"since"}), DateEl>>, <<2>>), q))

\* \blast\s+(\d{1,3})\s+units?\b
CliLastN(a, unit, units) == <<Ws({a}), Num3El, Ws({unit, units})>>

CliN(a, unit, units, q) == CliGroups(CliLastN(a, unit, units), <<2>>, q)[1][1].n

extract_time_window_advanced(q, now) ==
  LET monday == PlusDays(now, 0 - Weekday(now))
      first_of_this_month == ReplaceHMSU(PlusDays(now, 1 - Day(now)), 0, 0)
      LastMonth(last_month) ==
        Window(PlusDays(last_month, 1 - Day(last_month)), end_of_day(last_month))
      LastYear(start_of_this_year, year) ==
        Window(ReplaceYmd(start_of_this_year, year - 1, 1, 1),
               MinusOneSecond(start_of_this_year))
      ThisYear(year) == ReplaceHMSU(ReplaceYmd(now, year, 1, 1), 0, 0)
  IN
  IF CliFound(<<Ws({"last"}), Ws({"week"})>>, q)
  THEN LET start_of_last_week == start_of_day(PlusDays(monday, 0 - 7))
       IN  Window(start_of_last_week, end_of_day(PlusDays(start_of_last_week, 6)))
  ELSE IF CliFound(<<Ws({"this"}), Ws({"week"})>>, q)
  THEN Window(start_of_day(monday), now)
  ELSE IF CliFound(CliLastN("last", "day", "days"), q)
  THEN Window(start_of_day(PlusDays(now, 0 - CliN("last", "day", "days", q))), now)
  ELSE IF CliFound(CliLastN("last", "week", "weeks"), q)
  THEN Window(start_of_day(PlusDays(now, 0 - 7 * CliN("last", "week", "weeks", q))), now)
  ELSE IF CliFound(CliLastN("last", "month", "months"), q)
  THEN Window(start_of_day(PlusDays(now, 0 - 30 * CliN("last", "month", "months", q))), now)
  ELSE IF CliFound(CliLastN("past", "day", "days"), q)
  THEN Window(start_of_day(PlusDays(now, 0 - CliN("past", "day", "days", q))), now)
  ELSE IF CliFound(<<Ws({"yesterday"})>>, q)
  THEN Window(start_of_day(PlusDays(now, 0 - 1)), end_of_day(PlusDays(now, 0 - 1)))
  ELSE IF CliFound(<<Ws({"today"})>>, q)
  THEN Window(start_of_day(now), now)
  ELSE IF CliFound(<<Ws({"this"}), Ws({"month"})>>, q)
  THEN Window(first_of_this_month, now)
  ELSE IF CliFound(<<Ws({"last"}), Ws({"month"})>>, q)
  THEN LastMonth(PlusDays(first_of_this_month, 0 - 1))
  ELSE IF CliFound(<<Ws({"this"}), Ws({"year"})>>, q)
  THEN Window(ThisYear(Year(now)), now)
  ELSE IF CliFound(<<Ws({"last"}), Ws({"year"})>>, q)
  THEN LastYear(ThisYear(Year(now)), Year(now))
  ELSE CliSince(q, now)

----------------------------------------------------------------------------
(* sql_agent and the query building of cli.answer_question. An SQL text is  *)
(* the sequence of its lower-case tokens, a regular expression \bword\b     *)
(* matches a token.                                                        *)

\* is_safe_select: the deny lists, in the order of the code. The pattern
\* 'union all select ... from ( ... select ... )' needs a word character right
\* after the closing parenthesis and matches none of the texts explored.
is_safe_select(sql) ==
  LET Has(S) == \E i \in 1..Len(sql) : sql[i] \in S
      HasPair(a, S) == \E i \in 1..(Len(sql) - 1) : sql[i] = a /\ sql[i + 1] \in S
      \* words in which drop, delete, insert or update occurs
      Mutating == {"drop", "delete", "insert", "update", "dropped", "updated_at"}
      LineComment == \E i \in 1..Len(sql) :
                        sql[i] = "--" /\ \E j \in (i + 1)..Len(sql) : sql[j] \in Mutating
      BlockComment == \E i \in 1..Len(sql) :
                        /\ sql[i] = "/*"
                        /\ \E j \in (i + 1)..Len(sql) :
                             /\ sql[j] \in Mutating
                             /\ \E k \in (j + 1)..Len(sql) : sql[k] = "*/"
  IN  /\ sql # <<>> /\ sql[1] = "select"
      /\ ~Has({"insert", "update", "delete", "drop", "alter", "create", "truncate",
               "replace", "attach", "detach", "vacuum", "analyze", "reindex", "pragma",
               "begin", "commit", "rollback", "savepoint", "release", "backup",
               "restore", "load_extension", "load", "exec", "execute", "sp_", "xp_"})
      /\ ~\E i \in 1..(Len(sql) - 2) :
            sql[i] = "explain" /\ sql[i + 1] = "query" /\ sql[i + 2] = "plan"
      /\ ~Has({"sqlite_master", "sqlite_temp_master", "sqlite_sequence",
               "information_schema", "pg_", "mysql.user", "sys.tables"})
      /\ ~Has({"load_file", "benchmark", "sleep", "waitfor", "delay", "sp_executesql",
               "openrowset", "opendatasource"})
      /\ ~HasPair("into", {"outfile", "dumpfile", "file"})
      /\ ~LineComment
      /\ ~BlockComment
      /\ Has({";"}) => sql[Len(sql)] = ";"

\* the number of statements of a text, the runs of tokens that ';' separates:
\* conn.execute runs one statement and raises on a text that holds more
StatementCount(sql) ==
  Cardinality({i \in 1..Len(sql) : sql[i] # ";" /\ (i = 1 \/ sql[i - 1] = ";")})

\* a faulty run without conn.close(): the connection stays open
SqlRunLeaking(ret, conns, executed) ==
  [ret |-> ret, executed |-> executed, opened |-> conns, closed |-> 0]

\* what a call of run_sql_readonly did: its return value (or the exception it
\* raised), the connections it opened and closed, the statements it handed to
\* the database
SqlRun(ret, conns, executed) ==
  [ret |-> ret, executed |-> executed, opened |-> conns, closed |-> conns]

\* (columns, rows, error)
SqlResult(cols, rows, err) == [k |-> "result", cols |-> cols, rows |-> rows, err |-> err]

\* a faulty run_sql_readonly that executes whatever it is given
run_sql_unchecked(sql, db) ==
  IF db = "noconnect" THEN SqlRun(Raise("OperationalError"), 0, <<>>)
  ELSE IF db = "error" \/ StatementCount(sql) > 1
  THEN SqlRun(SqlResult(<<>>, <<>>, "SQL execution error"), 1, <<sql>>)
  ELSE SqlRun(SqlResult(<<"col">>, IF db = "rows" THEN <<1>> ELSE <<>>, ""), 1, <<sql>>)

\* run_sql_readonly; db is what the database does: it cannot be opened, the
\* statement fails, or it returns rows or none
run_sql_readonly(sql, db) ==
  IF ~is_safe_select(sql)
  THEN SqlRun(SqlResult(<<>>, <<>>, "Unsafe or non-SELECT SQL was rejected."), 0, <<>>)
  ELSE IF db = "noconnect" THEN SqlRun(Raise("OperationalError"), 0, <<>>)
  ELSE IF db = "error" \/ StatementCount(sql) > 1
  THEN SqlRun(SqlResult(<<>>, <<>>, "SQL execution error"), 1, <<sql>>)
  ELSE SqlRun(SqlResult(<<"col">>, IF db = "rows" THEN <<1>> ELSE <<>>, ""), 1, <<sql>>)

\* what a call of the text-generation service does: it fails (the import, the
\* request or the reading of the reply raises) or it replies with a content
Failed == [k |-> "fail"]

Reply(content) == [k |-> "reply", content |-> content]

\* what one of the three service functions did: the value it returned and the
\* number of requests it sent to the service
Served(value, external) == [value |-> value, external |-> external]

\* a faulty generate_sql that sends the request without testing is_configured;
\* without a key the request fails
generate_sql_unguarded(configured, outcome) ==
  IF ~configured \/ outcome.k = "fail"
  THEN Served([sql |-> <<>>, err |-> "SQL generation error"], 1)
  ELSE Served([sql |-> outcome.content, err |-> ""], 1)

\* generate_sql: (sql, error); the reply is stripped of its code fence (the
\* tokens [fence sql] and [fence] stand for the lines of three backquotes)
generate_sql(configured, outcome) ==
  LET Unfence(s) ==
        LET a == IF s # <<>> /\ s[1] \in {"[fence]", "[fence sql]"} THEN 2 ELSE 1
            b == IF s # <<>> /\ s[Len(s)] = "[fence]" THEN Len(s) - 1 ELSE Len(s)
        IN  SubSeq(s, a, b)
  IN  IF ~configured
      THEN Served([sql |-> <<>>, err |-> "OpenAI not configured"], 0)
      ELSE IF outcome.k = "fail"
      THEN Served([sql |-> <<>>, err |-> "SQL generation error"], 1)
      ELSE Served([sql |-> Unfence(outcome.content), err |-> ""], 1)

\* parse_with_llm: the metric and the error of the ParsedIntent; the reply is
\* the one token of the JSON's metric, and any other reply makes json.loads raise
parse_with_llm(configured, outcome) ==
  IF ~configured
  THEN Served([metric |-> "None", error |-> "OpenAI not configured"], 0)
  ELSE IF outcome.k = "fail" \/ Len(outcome.content) # 1
  THEN Served([metric |-> "None", error |-> "LLM error"], 1)
  ELSE Served([metric |-> outcome.content[1], error |-> "None"], 1)

\* format_response_natural: formatted_text and error of the FormattedResponse;
\* natural tells the text is the service's wording of raw_result
format_response_natural(configured, raw_result, outcome) ==
  IF ~configured
  THEN Served([error |-> "OpenAI API key not configured",
               formatted_text |-> [k |-> "text", text |-> raw_result, natural |-> FALSE]], 0)
  ELSE IF outcome.k = "fail"
  THEN Served([error |-> "Error formatting response",
               formatted_text |-> [k |-> "text", text |-> raw_result, natural |-> FALSE]], 1)
  ELSE Served([error |-> "None",
               formatted_text |-> [k |-> "text", text |-> raw_result, natural |-> TRUE]], 1)

\* the keyword test 'any(word in q_lower ...)': a substring test, given here
\* by the words of the questions explored in which a keyword occurs
DetectMetric(q) ==
  LET Has(S) == \E i \in 1..Len(q) : q[i].k = "w" /\ q[i].w \in S
  IN  IF Has({"sent", "send", "present"}) THEN "sent"
      ELSE IF Has({"opened", "open", "opens"}) THEN "opened"
      ELSE IF Has({"replied", "reply", "replies", "responded"}) THEN "replied"
      ELSE IF Has({"bounced", "bounce", "bounces"}) THEN "bounced"
      ELSE "None"

\* datetime.isoformat(): YYYY-MM-DDTHH:MM:SS, then .ffffff unless the
\* microsecond is 0, then +00:00 for an aware datetime
isoformat(dt) ==
  [k |-> "iso", date |-> dt.d, time |-> dt.s,
   frac |-> IF dt.u = 0 THEN <<>> ELSE <<dt.u>>,
   offset |-> IF dt.tz THEN "+00:00" ELSE ""]

\* a faulty query builder that forgets the upper bound
WhereStartOnly(start_iso, end_iso) ==
  IF IsNone(start_iso) THEN [where |-> <<>>, params |-> <<>>]
  ELSE [where |-> <<"sent_at >= ?">>, params |-> <<start_iso>>]

\* the 'where' and 'params' lists answer_question builds from the two bounds
WhereClauses(start_iso, end_iso) ==
  LET s == IF IsNone(start_iso) THEN <<>> ELSE <<[c |-> "sent_at >= ?", p |-> start_iso]>>
      e == IF IsNone(end_iso) THEN <<>> ELSE <<[c |-> "sent_at <= ?", p |-> end_iso]>>
  IN  [where |-> [i \in 1..Len(s \o e) |-> (s \o e)[i].c],
       params |-> [i \in 1..Len(s \o e) |-> (s \o e)[i].p]]

\* a <= b as SQLite compares two ISO texts: character by character
IsoLe(a, b) ==
  LET TailRank(x) == IF x.frac = <<>> THEN (IF x.offset = "" THEN 0 ELSE 1) ELSE 2
      FracOf(x) == IF x.frac = <<>> THEN 0 ELSE x.frac[1]
  IN  \/ a.date < b.date
      \/ a.date = b.date /\ a.time < b.time
      \/ a.date = b.date /\ a.time = b.time /\ TailRank(a) < TailRank(b)
      \/ /\ a.date = b.date /\ a.time = b.time /\ TailRank(a) = TailRank(b)
         /\ \/ FracOf(a) < FracOf(b)
            \/ FracOf(a) = FracOf(b) /\ (a.offset = b.offset \/ a.offset = "")

\* the statement a metric branch hands to cur.execute, with the rows of table
\* that satisfy its sent_at conditions
MetricQuery(metric, clauses, table) ==
  [k |-> "metric",
   rows |-> {r \in table :
               \A i \in 1..Len(clauses.where) :
                 IF clauses.where[i] = "sent_at >= ?"
                 THEN IsoLe(clauses.params[i], r.sent_at)
                 ELSE IsoLe(r.sent_at, clauses.params[i])},
   metric |-> metric, where |-> clauses.where, params |-> clauses.params]

----------------------------------------------------------------------------
(* The questions and clock readings explored *)

D_Jan01 == Date(2024, 1, 1)

D_Jan31 == Date(2024, 1, 31)

D_Jun01 == Date(2024, 6, 1)

Questions ==
  { Words(<<"bounce", "rate">>),
    Words(<<"last", "week">>),
    Words(<<"this", "week">>),
    Words(<<"yesterday">>),
    Words(<<"today">>),
    Words(<<"yesterday", "last", "week">>),
    Words(<<"last", "week", "this", "week">>),
    Words(<<"this", "week", "today">>),
    Words(<<"past", "week", "last", "week">>),
    <<W("last"), Num(7, 1), W("days")>>,
    <<Num(7, 1), W("days"), W("ago")>>,
    <<W("today"), W("last"), Num(0, 1), W("days")>>,
    <<W("last"), Num(1000000, 7), W("days")>>,
    <<W("since"), D_Jan01>>,
    <<W("since"), Date(2030, 1, 1)>>,
    <<W("since"), Date(2024, 13, 45)>>,
    <<W("since"), Date(2024, 13, 45), W("in"), MonthName(3)>>,
    <<W("since"), DateTime(2024, 1, 1, 0, TRUE)>>,
    <<W("since"), DateTime(2024, 1, 1, 0, TRUE), W("yesterday")>>,
    <<W("yesterday"), W("since"), Date(2030, 1, 1)>>,
    <<W("between"), D_Jan01, W("and"), D_Jan31>>,
    <<W("between"), D_Jun01, W("and"), D_Jan01>>,
    <<W("from"), D_Jun01, W("to"), D_Jan01>>,
    <<W("from"), D_Jan01, W("to"), D_Jan31, W("between"), D_Jun01, W("and"), D_Jan01>>,
    <<W("between"), D_Jun01, W("and"), D_Jan01, W("in"), MonthName(1)>>,
    <<W("between"), D_Jun01, W("and"), D_Jan01, W("last"), W("week")>>,
    <<W("in"), MonthName(2), Num(0, 4)>>,
    <<W("in"), MonthName(3), Num(2024, 4)>>,
    <<W("in"), MonthName(12)>>,
    <<W("data"), W("from"), MonthName(1), Num(2024, 4)>>,
    <<W("top"), Num(7, 1), W("domains")>>,
    <<W("on"), Date(2024, 12, 25)>>,
    Words(<<"last", "month">>),
    Words(<<"this", "month">>),
    Words(<<"this", "year">>),
    <<W("last"), Num(2, 1), W("weeks")>>,
    <<Num(2, 1), W("weeks"), W("ago")>>,
    <<W("last"), Num(3, 1), W("months")>>,
    <<Num(3, 1), W("months"), W("ago")>>,
    <<W("during"), MonthName(12), Num(2023, 4)>>,
    <<Date(2014, 3, 19)>>,
    <<Date(2034, 3, 13)>>,
    <<Date(2024, 12, 25)>>,
    <<Date(1999, 1, 1)>>,
    <<W("last"), Num(30, 2), W("days")>>,
    <<W("last"), Num(365, 3), W("days")>>,
    <<W("since"), Date(2024, 13, 45), W("on"), Date(2024, 12, 25)>>,
    <<W("on"), Date(2024, 13, 45), W("yesterday")>>,
    <<W("between"), Date(2024, 13, 45), W("and"), D_Jan31,
      W("from"), D_Jan01, W("to"), D_Jan31>> }

\* Monday 2024-03-11; the spec's scenarios are set on Friday 2024-03-15
FirstDay == Ymd2Ord(2024, 3, 11)

NowDays == {FirstDay + i : i \in 0..6}

NowSeconds == {0, 36000, EndOfDay}

NowMicros == {0, 999999}

\* clock readings at the ends of months of 31, 29, 28 and 30 days and of a year
EdgeNows ==
  { DtYmd(2024, 1, 1, 0, 0), DtYmd(2024, 3, 1, 36000, 0),
    DtYmd(2023, 3, 31, EndOfDay, 999999), DtYmd(2024, 5, 31, 36000, 999999),
    DtYmd(2024, 12, 31, EndOfDay, 0) }

NowSet ==
  {Dt(d, sec, u, FALSE) : d \in NowDays, sec \in NowSeconds, u \in NowMicros}
    \cup EdgeNows

----------------------------------------------------------------------------
(* State.                                                                  *)
(*   clock    - the wall clock every datetime.now() / utcnow() reads       *)
(*   ticks    - how often the clock has advanced                           *)
(*   patterns - self.patterns of the global SimpleTimeParser               *)
(*   calls    - per caller: the resolve call it is in                      *)
(*   exprs    - the "expressions" list of each call                        *)
(*   dd       - a direct call of _deduplicate_expressions on a given list  *)
(*   ans      - a call of cli.answer_question                               *)
(*   svc      - a direct call of generate_sql, parse_with_llm or            *)
(*              format_response_natural                                     *)

Threads == {1, 2}

MaxTicks == 1

IdleCall == [q |-> <<>>, pc |-> 0, nows |-> <<>>, st |-> "idle", kind |-> "", res |-> None]

DdOff == [st |-> "off", input |-> <<>>, output |-> List(<<>>)]

AnsOff ==
  [q |-> <<>>, sql |-> <<>>, ret |-> None, executed |-> <<>>, opened |-> 0, closed |-> 0,
   external |-> 0, configured |-> FALSE, metric |-> "None", st |-> "off", sqlres |-> None,
   window |-> None, steps |-> <<>>]

SvcOff == [st |-> "off"]

\* a faulty parser that keeps its candidate list on the shared instance
SharedSlot(t) == 1

\* "expressions = []" is a local of the call
LocalSlot(t) == t

PlusMicro(dt) ==
  IF dt.u + 1 < UsPerSec THEN [dt EXCEPT !.u = dt.u + 1]
  ELSE IF dt.s + 1 < SecPerDay THEN [dt EXCEPT !.u = 0, !.s = dt.s + 1]
  ELSE [dt EXCEPT !.u = 0, !.s = 0, !.d = dt.d + 1]

PlusSecond(dt) ==
  IF dt.s + 1 < SecPerDay THEN [dt EXCEPT !.s = dt.s + 1]
  ELSE [dt EXCEPT !.s = 0, !.d = dt.d + 1]

\* time passes: by a microsecond or by a second
TickBody ==
  /\ ticks < MaxTicks
  /\ clock' \in {PlusMicro(clock), PlusSecond(clock)}
  /\ ticks' = ticks + 1
  /\ UNCHANGED <<patterns, calls, exprs, dd, ans, svc>>

\* a caller enters get_best_time_window / extract_time_window_advanced
StartCall(t, kind, q) ==
  /\ calls[t].st = "idle"
  /\ calls' = [calls EXCEPT ![t] = [q |-> q, pc |-> 1, nows |-> <<>>,
                                    st |-> "run", kind |-> kind, res |-> None]]
  /\ exprs' = [exprs EXCEPT ![LocalSlot(t)] = <<>>]
  /\ UNCHANGED <<clock, ticks, patterns, dd, ans, svc>>

\* one pass of the pattern loop that finds a match: the resolver reads the clock
SimpleStep(t) ==
  /\ calls[t].st = "run" /\ calls[t].kind = "simple"
  /\ LET i == NextMatch(patterns, calls[t].q, calls[t].pc) IN
     /\ i # 0
     /\ exprs' = [exprs EXCEPT ![LocalSlot(t)] =
                    PatternBody(patterns[i], calls[t].q, clock, exprs[LocalSlot(t)])]
     /\ calls' = [calls EXCEPT ![t].pc = i + 1, ![t].nows = Append(@, clock)]
  /\ UNCHANGED <<clock, ticks, patterns, dd, ans, svc>>

\* a call leaves parse_time_expression / get_best_time_window with all its
\* candidates collected
Finish(t, all) ==
  /\ exprs' = [exprs EXCEPT ![LocalSlot(t)] = all]
  /\ calls' = [calls EXCEPT ![t].st = "done", ![t].nows = Append(@, clock),
                            ![t].res = BestWindow(RankExpressions(all))]

\* no further pattern matches: fallback, deduplication, sort, best window
SimpleReturn(t) ==
  /\ calls[t].st = "run" /\ calls[t].kind = "simple"
  /\ NextMatch(patterns, calls[t].q, calls[t].pc) = 0
  /\ Finish(t, FallbackStage(calls[t].q, clock, exprs[LocalSlot(t)]))
  /\ UNCHANGED <<clock, ticks, patterns, dd, ans, svc>>

\* AdvancedTimeParser.parse_time_expression, method 3
AdvancedStep(t) ==
  /\ calls[t].st = "run" /\ calls[t].kind = "advanced" /\ calls[t].pc = 1
  /\ exprs' = [exprs EXCEPT ![LocalSlot(t)] = adv_parse_with_dateutil(calls[t].q, clock)]
  /\ calls' = [calls EXCEPT ![t].pc = 2, ![t].nows = Append(@, clock)]
  /\ UNCHANGED <<clock, ticks, patterns, dd, ans, svc>>

\* method 4, then deduplication, sort, best window
AdvancedReturn(t) ==
  /\ calls[t].st = "run" /\ calls[t].kind = "advanced" /\ calls[t].pc = 2
  /\ Finish(t, exprs[LocalSlot(t)] \o adv_parse_with_context_patterns(calls[t].q, clock))
  /\ UNCHANGED <<clock, ticks, patterns, dd, ans, svc>>

\* cli.extract_time_window_advanced reads the clock once and returns
CliReturn(t) ==
  /\ calls[t].st = "run" /\ calls[t].kind = "cli"
  /\ calls' = [calls EXCEPT ![t].st = "done", ![t].nows = Append(@, clock),
                            ![t].res = extract_time_window_advanced(calls[t].q, clock)]
  /\ UNCHANGED <<clock, ticks, patterns, exprs, dd, ans, svc>>

\* AdvancedTimeParser._create_expression_from_pattern reads the clock and
\* returns a TimeExpression or None
PatternReturn(t) ==
  /\ calls[t].st = "run" /\ calls[t].kind = "pattern"
  /\ calls' = [calls EXCEPT ![t].st = "done", ![t].nows = Append(@, clock),
                            ![t].res = create_expression_from_pattern(calls[t].q[1].w,
                                                                     clock)]
  /\ UNCHANGED <<clock, ticks, patterns, exprs, dd, ans, svc>>

Kinds == {"simple", "advanced", "cli"}

----------------------------------------------------------------------------
(* Spec: one resolve call, of any implementation, on any question *)

Init ==
  /\ clock \in NowSet
  /\ ticks = 0
  /\ patterns = PatternTable
  /\ calls = [t \in Threads |-> IdleCall]
  /\ exprs = [t \in Threads |-> <<>>]
  /\ dd = DdOff
  /\ ans = AnsOff
  /\ svc = SvcOff

Tick == calls[1].st = "run" /\ TickBody

Start ==
  \/ \E kind \in Kinds, q \in Questions : StartCall(1, kind, q)
  \/ \E p \in PatternTypes : StartCall(1, "pattern", Words(<<p>>))

Next ==
  \/ Tick
  \/ Start
  \/ SimpleStep(1)
  \/ SimpleReturn(1)
  \/ AdvancedStep(1)
  \/ AdvancedReturn(1)
  \/ CliReturn(1)
  \/ PatternReturn(1)

Spec == Init /\ [][Next]_vars

----------------------------------------------------------------------------
(* ConcSpec: two callers of the global parser / of the cli function,        *)
(* interleaved step by step while the clock advances                        *)

ConcQuestions ==
  { Words(<<"today">>),
    Words(<<"yesterday", "last", "week">>),
    Words(<<"this", "week", "today">>),
    Words(<<"bounce", "rate">>) }

ConcKinds == {"simple", "cli"}

\* Monday 00:00:00 and Friday 10:00:00
ConcNowSet == {Dt(FirstDay, 0, 0, FALSE), Dt(FirstDay + 4, 36000, 0, FALSE)}

ConcInit ==
  /\ clock \in ConcNowSet
  /\ ticks = 0
  /\ patterns = PatternTable
  /\ calls = [t \in Threads |-> IdleCall]
  /\ exprs = [t \in Threads |-> <<>>]
  /\ dd = DdOff
  /\ ans = AnsOff
  /\ svc = SvcOff

ConcTick ==
  /\ \E t \in Threads : calls[t].st # "idle"
  /\ \E t \in Threads : calls[t].st # "done"
  /\ TickBody

ConcStart == \E t \in Threads, kind \in ConcKinds, q \in ConcQuestions : StartCall(t, kind, q)

ConcNext ==
  \/ ConcTick
  \/ ConcStart
  \/ \E t \in Threads : SimpleStep(t)
  \/ \E t \in Threads : SimpleReturn(t)
  \/ \E t \in Threads : CliReturn(t)

ConcSpec == ConcInit /\ [][ConcNext]_vars

----------------------------------------------------------------------------
(* DedupSpec: _deduplicate_expressions applied to every list of at most     *)
(* MaxLen candidates                                                        *)

MaxLen == 3

\* starts 45 seconds apart, one of them timezone-aware, or missing
DdStarts ==
  {None} \cup {Dt(FirstDay, sec, 0, FALSE) : sec \in {0, 45, 90}}
         \cup {Dt(FirstDay, 0, 0, TRUE)}

DdEnds == {None, Dt(FirstDay + 6, EndOfDay, 0, FALSE)}

DdConfidences == {70, 80}

DdCandidates ==
  {TimeExpression(st, en, c, "relative", <<>>) :
     st \in DdStarts, en \in DdEnds, c \in DdConfidences}

DdLists == UNION {[1..n -> DdCandidates] : n \in 0..MaxLen}

DedupInit ==
  /\ clock = Dt(FirstDay, 0, 0, FALSE)
  /\ ticks = 0
  /\ patterns = PatternTable
  /\ calls = [t \in Threads |-> IdleCall]
  /\ exprs = [t \in Threads |-> <<>>]
  /\ dd \in {[st |-> "input", input |-> l, output |-> List(<<>>)] : l \in DdLists}
  /\ ans = AnsOff
  /\ svc = SvcOff

Deduplicate ==
  /\ dd.st = "input"
  /\ dd' = [dd EXCEPT !.st = "done", !.output = deduplicate_expressions(dd.input)]
  /\ UNCHANGED <<clock, ticks, patterns, calls, exprs, ans, svc>>

DedupNext == Deduplicate

DedupSpec == DedupInit /\ [][DedupNext]_vars

\* what a call of one implementation returns when every clock read gives now
AloneAt(kind, q, now) ==
  CASE kind = "simple" ->
         SimpleAlone(PatternTable, q, [i \in 1..(Len(PatternTable) + 1) |-> now])
    [] kind = "advanced" -> AdvancedAlone(q, now, now)
    [] kind = "cli" -> extract_time_window_advanced(q, now)

----------------------------------------------------------------------------
(* AnswerSpec: one call of cli.answer_question.                             *)
(*   ans.configured - OPENAI_API_KEY is set                                 *)
(*   ans.sql        - the text generate_sql returned                        *)
(*   ans.sqlres     - what run_sql_readonly returned or raised              *)
(*   ans.metric     - the metric found by keyword or by parse_with_llm      *)
(*   ans.window     - what parse_time_simple returned                       *)
(*   ans.opened, ans.closed - database connections opened and closed        *)
(*   ans.executed   - the statements handed to the database, in order       *)
(*   ans.ret        - the value returned, or the exception raised           *)
(*   ans.external   - the requests sent to the text-generation service      *)
(*   ans.steps      - the functions called, in order                        *)

AnsQuestions ==
  { <<>>,
    Words(<<"sent", "last", "week">>),
    Words(<<"opened", "yesterday">>),
    Words(<<"replied">>),
    <<W("bounced"), W("since"), Date(2030, 1, 1)>>,
    Words(<<"bounce", "rate">>),
    Words(<<"revenue", "today">>),
    <<W("sent"), W("since"), DateTime(2024, 1, 1, 0, TRUE), W("yesterday")>>,
    <<W("opened"), W("since"), DateTime(2024, 1, 1, 0, TRUE)>>,
    Words(<<"present", "day">>),
    <<W("clicked"), W("last"), Num(7, 1), W("days")>> }

\* texts the SQL generator may reply with
SqlTexts ==
  { <<"select", "count(*)", "from", "email_events">>,
    <<"select", "count(*)", "from", "email_events", ";">>,
    <<"drop", "table", "email_events">>,
    <<"select", "*", "from", "email_events", ";", "drop", "table", "email_events">>,
    <<"select", "*", "from", "sqlite_master">>,
    <<"select", "1", ";", "select", "2", ";">>,
    <<"select", "1", ";", "select", "2">>,
    <<"select", "email_address", "from", "email_events", "--", "dropped">>,
    <<"with", "x", "as", "(", "select", "1", ")", "select", "*", "from", "x">>,
    <<"select", "load_extension", "(", "x", ")">>,
    <<"select", "*", "into", "outfile", "from", "email_events">> }

\* the database cannot be opened, the statement fails, or it returns rows or none
DbOutcomes == {"noconnect", "error", "rows", "norows"}

\* what the service may name as the metric
LlmMetrics == {"sent", "opened", "replied", "bounced", "None", "clicked"}

\* the rows of email_events, by their sent_at
EmailEvents ==
  { [sent_at |-> isoformat(DtYmd(2023, 6, 1, 43200, 0)), id |-> 1],
    [sent_at |-> isoformat(DtYmd(2024, 3, 5, 0, 0)), id |-> 2],
    [sent_at |-> isoformat(DtYmd(2024, 3, 14, 36000, 0)), id |-> 3] }

AnsNowSet == {DtYmd(2024, 3, 15, 36000, 0), DtYmd(2024, 3, 11, 0, 999999)}

AnswerInit ==
  /\ clock \in AnsNowSet
  /\ ticks = 0
  /\ patterns = PatternTable
  /\ calls = [t \in Threads |-> IdleCall]
  /\ exprs = [t \in Threads |-> <<>>]
  /\ dd = DdOff
  /\ ans \in {[AnsOff EXCEPT !.st = "asked", !.q = q, !.configured = c] :
                q \in AnsQuestions, c \in BOOLEAN}
  /\ svc = SvcOff

\* the replies of the service to the three requests
GenOutcomes ==
  {Failed} \cup {Reply(t) : t \in SqlTexts \cup
                   {<<>>, <<"[fence sql]", "select", "count(*)", "from", "email_events", "[fence]">>}}

IntentOutcomes == {Failed, Reply(<<"not", "json">>)} \cup {Reply(<<m>>) : m \in LlmMetrics}

FormatOutcomes == {Failed, Reply(<<"natural", "wording">>)}

\* 'formatted.formatted_text if formatter_is_configured() else raw_result';
\* format_error_natural words an error the same way
Formatted(text) ==
  {format_response_natural(ans.configured, text, o) : o \in FormatOutcomes}

\* the empty-question test and generate_sql
\* a faulty branch that goes on to the intent flow whatever generate_sql gave
AlwaysIntent(g) == "intent"

\* "if sql_err: pass / elif sql:": the SQL branch is taken when generate_sql
\* returned no error and a text that is not empty
AfterGenerateSql(g) ==
  IF g.value.err # "" \/ g.value.sql = <<>> THEN "intent" ELSE "sql"

GenerateSql ==
  /\ ans.st = "asked"
  /\ \/ /\ ans.q = <<>>
        /\ ans' = [ans EXCEPT !.st = "done",
                              !.ret = [k |-> "text", text |-> "Please provide a question.",
                                       natural |-> FALSE]]
     \/ /\ ans.q # <<>>
        /\ LET Go(g) ==
                 ans' = [ans EXCEPT !.sql = g.value.sql,
                                    !.st = AfterGenerateSql(g),
                                    !.external = @ + g.external,
                                    !.steps = Append(@, "generate_sql")]
           IN  \E o \in GenOutcomes : Go(generate_sql(ans.configured, o))
  /\ UNCHANGED <<clock, ticks, patterns, calls, exprs, dd, svc>>

\* the SQL branch: run_sql_readonly, then the error or the rendered result
RunSql ==
  /\ ans.st = "sql"
  /\ LET EndWith(r, ret, external) ==
           ans' = [ans EXCEPT !.st = "done", !.ret = ret, !.sqlres = r.ret,
                              !.opened = @ + r.opened, !.closed = @ + r.closed,
                              !.executed = @ \o [i \in 1..Len(r.executed) |->
                                                   [k |-> "sql", text |-> r.executed[i]]],
                              !.external = @ + external,
                              !.steps = Append(@, "run_sql_readonly")]
         Apply(r) ==
           IF IsRaise(r.ret) THEN EndWith(r, r.ret, 0)
           ELSE \E f \in Formatted(IF r.ret.err # "" THEN r.ret.err
                                   ELSE IF r.ret.rows = <<>> THEN "No results."
                                   ELSE "result") :
                  EndWith(r, f.value.formatted_text, f.external)
     IN  \E db \in DbOutcomes : Apply(run_sql_readonly(ans.sql, db))
  /\ UNCHANGED <<clock, ticks, patterns, calls, exprs, dd, svc>>

\* keyword detection, then parse_with_llm when no keyword is found
ClassifyMetric ==
  /\ ans.st = "intent"
  /\ LET Intent(p) ==
           IF p.value.error # "None"
           THEN ans' = [ans EXCEPT !.st = "done",
                                   !.ret = [k |-> "text", text |-> p.value.error,
                                            natural |-> FALSE],
                                   !.external = @ + p.external,
                                   !.steps = @ \o <<"keywords", "parse_with_llm">>]
           ELSE IF p.value.metric = "None"
           THEN ans' = [ans EXCEPT !.st = "done",
                                   !.ret = [k |-> "text", text |-> "I can answer",
                                            natural |-> FALSE],
                                   !.external = @ + p.external,
                                   !.steps = @ \o <<"keywords", "parse_with_llm">>]
           ELSE ans' = [ans EXCEPT !.st = "window", !.metric = p.value.metric,
                                   !.external = @ + p.external,
                                   !.steps = @ \o <<"keywords", "parse_with_llm">>]
         Decide(kw) ==
           IF kw # "None"
           THEN ans' = [ans EXCEPT !.st = "window", !.metric = kw,
                                   !.steps = Append(@, "keywords")]
           ELSE \E o \in IntentOutcomes : Intent(parse_with_llm(ans.configured, o))
     IN  Decide(DetectMetric(ans.q))
  /\ UNCHANGED <<clock, ticks, patterns, calls, exprs, dd, svc>>

\* parse_time_simple, connect(readonly=True), the where clause, the query of
\* the metric, conn.close()
QueryMetric ==
  /\ ans.st = "window"
  /\ LET Iso(d) == IF IsNone(d) THEN None ELSE isoformat(d)
         Run(window, db, clauses) ==
           IF db = "noconnect"
           THEN ans' = [ans EXCEPT !.st = "done", !.window = window,
                                   !.ret = Raise("OperationalError"),
                                   !.steps = @ \o <<"parse_time_simple", "connect">>]
           ELSE IF ans.metric \notin {"sent", "opened", "replied", "bounced"}
           THEN ans' = [ans EXCEPT !.st = "done", !.window = window,
                                   !.opened = @ + 1, !.closed = @ + 1,
                                   !.ret = [k |-> "text", text |-> "Field not available",
                                            natural |-> FALSE],
                                   !.steps = @ \o <<"parse_time_simple", "connect">>]
           ELSE IF db = "error"
           THEN ans' = [ans EXCEPT !.st = "done", !.window = window,
                                   !.ret = Raise("OperationalError"),
                                   !.opened = @ + 1, !.closed = @ + 1,
                                   !.executed = Append(@, MetricQuery(ans.metric, clauses,
                                                                      EmailEvents)),
                                   !.steps = @ \o <<"parse_time_simple", "connect">>]
           ELSE \E f \in Formatted("answer") :
                  ans' = [ans EXCEPT !.st = "done", !.window = window,
                                     !.ret = f.value.formatted_text,
                                     !.opened = @ + 1, !.closed = @ + 1,
                                     !.executed = Append(@, MetricQuery(ans.metric, clauses,
                                                                        EmailEvents)),
                                     !.external = @ + f.external,
                                     !.steps = @ \o <<"parse_time_simple", "connect">>]
         Query(window, db) ==
           IF IsRaise(window)
           THEN ans' = [ans EXCEPT !.st = "done", !.ret = window,
                                   !.steps = Append(@, "parse_time_simple")]
           ELSE Run(window, db, WhereClauses(Iso(window.start), Iso(window.end)))
     IN  \E db \in DbOutcomes : Query(AloneAt("simple", ans.q, clock), db)
  /\ UNCHANGED <<clock, ticks, patterns, calls, exprs, dd, svc>>

AnswerNext == GenerateSql \/ RunSql \/ ClassifyMetric \/ QueryMetric

AnswerSpec == AnswerInit /\ [][AnswerNext]_vars

----------------------------------------------------------------------------
(* ServiceSpec: one direct call of generate_sql, parse_with_llm or          *)
(* format_response_natural, with the key set or not and with every reply   *)
(* of the service.                                                          *)

RawResults == {"No results.", "result", "answer", "Total emails sent: 3", ""}

ServiceCall(fn, configured, outcome, raw) ==
  [configured |-> configured, outcome |-> outcome, st |-> "call", fn |-> fn,
   raw |-> raw, result |-> None]

ServiceInit ==
  /\ clock \in AnsNowSet
  /\ ticks = 0
  /\ patterns = PatternTable
  /\ calls = [t \in Threads |-> IdleCall]
  /\ exprs = [t \in Threads |-> <<>>]
  /\ dd = DdOff
  /\ ans = AnsOff
  /\ svc \in {ServiceCall("generate_sql", c, o, "") : c \in BOOLEAN, o \in GenOutcomes}
        \cup {ServiceCall("parse_with_llm", c, o, "") : c \in BOOLEAN, o \in IntentOutcomes}
        \cup {ServiceCall("format_response_natural", c, o, r) :
                c \in BOOLEAN, o \in FormatOutcomes, r \in RawResults}

\* the call returns
ServiceReturn ==
  /\ svc.st = "call"
  /\ \/ /\ svc.fn = "generate_sql"
        /\ svc' = [svc EXCEPT !.st = "returned",
                              !.result = generate_sql(svc.configured, svc.outcome)]
     \/ /\ svc.fn = "parse_with_llm"
        /\ svc' = [svc EXCEPT !.st = "returned",
                              !.result = parse_with_llm(svc.configured, svc.outcome)]
     \/ /\ svc.fn = "format_response_natural"
        /\ svc' = [svc EXCEPT !.st = "returned",
                              !.result = format_response_natural(svc.configured, svc.raw,
                                                                 svc.outcome)]
  /\ UNCHANGED <<clock, ticks, patterns, calls, exprs, dd, ans>>

ServiceNext == ServiceReturn

ServiceSpec == ServiceInit /\ [][ServiceNext]_vars

----------------------------------------------------------------------------
(* Properties *)

Done(t) == calls[t].st = "done"

\* the clock reading of the call's k-th read
ReadAt(t, k) == calls[t].nows[k]

LastRead(t) == calls[t].nows[Len(calls[t].nows)]

MaxConfidence(l) ==
  CHOOSE c \in {l[i].confidence : i \in 1..Len(l)} :
    \A i \in 1..Len(l) : l[i].confidence <= c

Matching(q) == {i \in 1..Len(PatternTable) : Search(PatternTable[i].re, q).found}

\* no pattern family matches and the fuzzy fallback finds no date
NoTimePhrase(q, now) == Matching(q) = {} /\ IsFail(FuzzyParse(q, now))

\* a "head d1 mid d2" phrase with two dates, as the groups of its match
DatedRange(head, mid, q) ==
  Search(Fixed(<<Ws({head}), DateEl, Ws({mid}), DateEl>>, <<2, 4>>), q)

RangeWords == {<<"between", "and">>, <<"from", "to">>, <<"from", "until">>}

RangeD1(r, q, now) == FuzzyParse(DatedRange(r[1], r[2], q).g[1], now)

RangeD2(r, q, now) == FuzzyParse(DatedRange(r[1], r[2], q).g[2], now)

RangeParses(r, q, now) ==
  /\ DatedRange(r[1], r[2], q).found
  /\ ~IsFail(RangeD1(r, q, now)) /\ ~IsFail(RangeD2(r, q, now))

\* d2 < d1
Reversed(r, q, now) ==
  RangeParses(r, q, now) /\ DtLt(RangeD2(r, q, now), RangeD1(r, q, now))

Ordered(r, q, now) ==
  RangeParses(r, q, now) /\ DtLe(RangeD1(r, q, now), RangeD2(r, q, now))

\* C1: a simple or advanced call that returns a window returns the (start, end)
\* of a candidate whose confidence is the maximum over all candidates the call
\* produced for the question.
C1_BestHasMaxConfidence ==
  \A t \in Threads :
    (Done(t) /\ calls[t].kind \in {"simple", "advanced"} /\ exprs[t] # <<>>
       /\ ~IsRaise(calls[t].res))
    => \E i \in 1..Len(exprs[t]) :
         /\ exprs[t][i].confidence = MaxConfidence(exprs[t])
         /\ calls[t].res = Window(exprs[t][i].start_date, exprs[t][i].end_date)

\* a call with two candidates, the later one of higher confidence, returned it
C1_Witness ==
  \E t \in Threads :
    /\ Done(t) /\ calls[t].kind = "simple" /\ Len(exprs[t]) >= 2
    /\ exprs[t][1].confidence < exprs[t][2].confidence
    /\ calls[t].res = Window(exprs[t][2].start_date, exprs[t][2].end_date)
    /\ calls[t].res # Window(exprs[t][1].start_date, exprs[t][1].end_date)

\* C2: a simple or advanced call (get_best_time_window) on a question with no
\* recognizable time phrase (no pattern family matches, the fuzzy fallback finds
\* no date) returns (None, None); and no call of any implementation returns a
\* window with exactly one component None.
C2_NoPhraseNoWindow ==
  \A t \in Threads :
    Done(t) =>
      /\ (calls[t].kind \in {"simple", "advanced"}
            /\ NoTimePhrase(calls[t].q, LastRead(t)))
           => calls[t].res = NoWindow
      /\ calls[t].res.k = "window"
           => (IsNone(calls[t].res.start) <=> IsNone(calls[t].res.end))

C2_Witness ==
  \E t \in Threads :
    /\ Done(t) /\ calls[t].kind = "simple"
    /\ NoTimePhrase(calls[t].q, LastRead(t))
    /\ calls[t].res = NoWindow

\* C3: every TimeExpression a call has collected, and every window returned
\* with both ends present, has start <= end.
C3_StartNotAfterEnd ==
  \A t \in Threads :
    /\ \A i \in 1..Len(exprs[t]) :
         exprs[t][i].start_date.tz = exprs[t][i].end_date.tz
           => DtLe(exprs[t][i].start_date, exprs[t][i].end_date)
    /\ (Done(t) /\ calls[t].res.k = "window" /\ ~IsNone(calls[t].res.start)
          /\ ~IsNone(calls[t].res.end)
          /\ calls[t].res.start.tz = calls[t].res.end.tz)
         => DtLe(calls[t].res.start, calls[t].res.end)

\* C4: no call ends by raising: every finished call returned a window or
\* (None, None).
C4_NoExceptionEscapes ==
  \A t \in Threads : Done(t) => ~IsRaise(calls[t].res)

\* C5: after _deduplicate_expressions no two retained candidates are duplicates
\* of each other (starts and ends both less than 60 seconds apart, a missing
\* date compared as datetime.min); two candidates that are duplicates leave one,
\* of the higher confidence.
C5_NoDuplicatesRetained ==
  (dd.st = "done" /\ dd.output.k = "list") =>
    /\ \A i, j \in 1..Len(dd.output.v) :
         i < j => DupCheck(dd.output.v[i], dd.output.v[j]) # "dup"
    /\ (Len(dd.input) = 2 /\ DupCheck(dd.input[2], dd.input[1]) = "dup")
         => /\ Len(dd.output.v) = 1
            /\ dd.output.v[1].confidence = MaxConfidence(dd.input)

\* C6: in a simple or advanced call on a question with a range phrase whose
\* second date is before its first, no candidate carries that range, and the
\* call returns (None, None) when the phrase is the only family that matches.
C6_ReversedRangeDiscarded ==
  \A t \in Threads : \A r \in RangeWords :
    (Done(t) /\ calls[t].kind \in {"simple", "advanced"}
       /\ Reversed(r, calls[t].q, ReadAt(t, 1)))
    => /\ \A i \in 1..Len(exprs[t]) :
            ~(/\ exprs[t][i].start_date = RangeD1(r, calls[t].q, ReadAt(t, 1))
              /\ exprs[t][i].end_date.d = RangeD2(r, calls[t].q, ReadAt(t, 1)).d)
       /\ Cardinality(Matching(calls[t].q)) = 1 => calls[t].res = NoWindow

\* C7: in a simple or cli call on a question with a reversed range phrase and
\* another range phrase whose dates are in order, the other phrase is still
\* evaluated and supplies the result: the call returns a window.
C7_OtherFamiliesStillApply ==
  \A t \in Threads : \A r1, r2 \in RangeWords :
    (Done(t) /\ calls[t].kind \in {"simple", "cli"}
       /\ Reversed(r1, calls[t].q, ReadAt(t, 1))
       /\ Ordered(r2, calls[t].q, ReadAt(t, 1)))
    => /\ calls[t].res.k = "window"
       /\ calls[t].res.start = RangeD1(r2, calls[t].q, ReadAt(t, 1))

SameSecond(a, b) == a.d = b.d /\ a.s = b.s

\* C8: two calls of the same implementation on the same question, all of whose
\* clock reads fall in the same clock second, return identical windows.
C8_SameSecondSameWindow ==
  \A t1, t2 \in Threads :
    (/\ Done(t1) /\ Done(t2)
     /\ calls[t1].kind = calls[t2].kind /\ calls[t1].q = calls[t2].q
     /\ \A i \in 1..Len(calls[t1].nows), j \in 1..Len(calls[t2].nows) :
          SameSecond(ReadAt(t1, i), ReadAt(t2, j)))
    => calls[t1].res = calls[t2].res

RECURSIVE CollectAlone(_, _, _, _, _)
\* the candidates the pattern loop run alone has collected after reading the
\* clock readings nows, one per matching entry
CollectAlone(table, text, pc, nows, expressions) ==
  IF nows = <<>> THEN expressions
  ELSE LET i == NextMatch(table, text, pc) IN
       CollectAlone(table, text, i + 1, Tail(nows),
                    PatternBody(table[i], text, Head(nows), expressions))

Front(seq) == SubSeq(seq, 1, Len(seq) - 1)

\* C9: under every interleaving the shared pattern table stays as constructed,
\* a running simple call holds exactly the candidates it would have collected
\* alone at the clock readings it made, and every finished call returned what
\* it returns when run alone at its clock readings.
C9_CallsDoNotInterfere ==
  /\ patterns = PatternTable
  /\ \A t \in Threads :
       /\ (calls[t].st = "run" /\ calls[t].kind = "simple")
            => exprs[t] = CollectAlone(PatternTable, calls[t].q, 1, calls[t].nows, <<>>)
       /\ (Done(t) /\ calls[t].kind = "simple")
            => /\ calls[t].res = SimpleAlone(PatternTable, calls[t].q, calls[t].nows)
               /\ exprs[t] = FallbackStage(calls[t].q, LastRead(t),
                               CollectAlone(PatternTable, calls[t].q, 1,
                                            Front(calls[t].nows), <<>>))
       /\ (Done(t) /\ calls[t].kind = "cli")
            => calls[t].res = extract_time_window_advanced(calls[t].q, ReadAt(t, 1))

\* caller 2 made its first clock read, the clock advanced, caller 1 returned a
\* window for another question, and caller 2 is still in its pattern loop
C9_Witness ==
  /\ Done(1) /\ calls[1].kind = "simple" /\ calls[1].res.k = "window"
  /\ ~IsNone(calls[1].res.start)
  /\ calls[2].st = "run" /\ calls[2].kind = "simple" /\ calls[2].nows # <<>>
  /\ exprs[2] # <<>> /\ exprs[1] # exprs[2]
  /\ calls[1].q # calls[2].q
  /\ DtLt(ReadAt(2, 1), LastRead(1))

LastWeekMatches(q) == Search(Two("last", "week"), q).found

\* the Monday that begins the ISO week of now, as a day ordinal
MondayOf(now) == now.d - Weekday(now)

OutranksLastWeek(q) == \E i \in Matching(q) : PatternTable[i].conf > 90

OneRead(t) == \A i \in 1..Len(calls[t].nows) : ReadAt(t, i) = ReadAt(t, 1)

RelativeUnits == {W("days"), W("weeks"), W("months")}

\* the question is exactly 'last N <unit>'
IsLastN(q) == Len(q) = 3 /\ q[1] = W("last") /\ q[2].k = "num" /\ q[3] \in RelativeUnits

\* 'N <unit> ago' for the question 'last N <unit>'
AgoPhrasing(q) == <<q[2], q[3], W("ago")>>

\* two datetimes at most one second apart
WithinSecond(a, b) ==
  IF IsNone(a) \/ IsNone(b) THEN a = b
  ELSE a.tz = b.tz /\ LET td == TdAbs(DtSub(a, b))
                      IN  td.days = 0 /\ (td.secs = 0 \/ (td.secs = 1 /\ td.us = 0))

\* C11: a call on 'last N <unit>' that read the clock at one instant returns a
\* window whose start and end are each within one second of the start and end
\* the same implementation returns for 'N <unit> ago' at that instant.
C11_LastNEqualsNAgo ==
  \A t \in Threads :
    (Done(t) /\ IsLastN(calls[t].q) /\ OneRead(t) /\ calls[t].res.k = "window") =>
      LET ago == AloneAt(calls[t].kind, AgoPhrasing(calls[t].q), ReadAt(t, 1))
      IN  /\ ago.k = "window"
          /\ WithinSecond(calls[t].res.start, ago.start)
          /\ WithinSecond(calls[t].res.end, ago.end)

\* the day ordinal of day 1 of the month before the month of now
PrevMonthFirst(now) ==
  IF Month(now) = 1 THEN Ymd2Ord(Year(now) - 1, 12, 1)
  ELSE Ymd2Ord(Year(now), Month(now) - 1, 1)

\* the day ordinal of the last day of the month before the month of now
PrevMonthLast(now) == Ymd2Ord(Year(now), Month(now), 1) - 1

\* from 00:00:00 of day 1 of the previous month to 23:59:59 of its last day
IsPrevMonth(start, end, now) ==
  /\ start.d = PrevMonthFirst(now) /\ start.s = 0
  /\ end.d = PrevMonthLast(now) /\ end.s = EndOfDay

\* C12: each resolver of 'last month' (SimpleTimeParser._parse_last_month and
\* cli.extract_time_window_advanced on the question 'last month',
\* AdvancedTimeParser._create_expression_from_pattern on 'last_month') returns
\* 00:00:00 of the first day of the previous month through 23:59:59 of its last
\* day, whatever the length of that month and across the turn of the year.
C12_LastMonthIsCalendarMonth ==
  \A t \in Threads :
    Done(t) =>
      /\ (calls[t].kind \in {"simple", "cli"} /\ calls[t].q = Words(<<"last", "month">>))
           => /\ calls[t].res.k = "window"
              /\ IsPrevMonth(calls[t].res.start, calls[t].res.end, ReadAt(t, 1))
      /\ (calls[t].kind = "pattern" /\ calls[t].q = Words(<<"last_month">>))
           => /\ calls[t].res.k = "expr"
              /\ IsPrevMonth(calls[t].res.start_date, calls[t].res.end_date, ReadAt(t, 1))

PeriodQuestions ==
  {Words(<<"this", "week">>), Words(<<"this", "month">>), Words(<<"this", "year">>),
   Words(<<"today">>)}

\* the day ordinal of the first day of the period of q that contains now
PeriodFirstDay(q, now) ==
  CASE q = Words(<<"this", "week">>) -> MondayOf(now)
    [] q = Words(<<"this", "month">>) -> Ymd2Ord(Year(now), Month(now), 1)
    [] q = Words(<<"this", "year">>) -> Ymd2Ord(Year(now), 1, 1)
    [] q = Words(<<"today">>) -> now.d

\* C13: a simple or cli call on 'this week', 'this month', 'this year' or 'today'
\* returns a window whose end is the now the resolver read and whose start is
\* 00:00:00 of the first day of the period containing now (Monday of the ISO
\* week, day 1 of the month, January 1 of the year, the day itself): hour,
\* minute and second are zero, a simple call keeping the microsecond of now and
\* a cli call clearing it; hence start <= end.
C13_ThisPeriodFromItsFirstMidnight ==
  \A t \in Threads :
    (Done(t) /\ calls[t].kind \in {"simple", "cli"} /\ calls[t].q \in PeriodQuestions) =>
      LET now == ReadAt(t, 1) IN
      /\ calls[t].res.k = "window"
      /\ calls[t].res.end = now
      /\ calls[t].res.start =
           Dt(PeriodFirstDay(calls[t].q, now), 0,
              IF calls[t].kind = "cli" THEN 0 ELSE now.u, FALSE)
      /\ DtLe(calls[t].res.start, calls[t].res.end)

\* a simple call on 'this month', made on the last day of a month at a clock
\* reading with a non-zero microsecond, returned the window from day 1
C13_Witness ==
  \E t \in Threads :
    /\ Done(t) /\ calls[t].kind = "simple" /\ calls[t].q = Words(<<"this", "month">>)
    /\ Day(ReadAt(t, 1)) = 31 /\ ReadAt(t, 1).u # 0
    /\ calls[t].res.k = "window" /\ calls[t].res.end = ReadAt(t, 1)
    /\ calls[t].res.start.d = ReadAt(t, 1).d - 30

\* C14: a simple or cli call on 'yesterday' returns the window from 00:00:00 to
\* 23:59:59 of the calendar day before the day of now, also when that day lies
\* in the previous month or year; the whole window is before 00:00:00 of the
\* day of now, so it contains no instant of the current day.
C14_YesterdayIsThePreviousDay ==
  \A t \in Threads :
    (Done(t) /\ calls[t].kind \in {"simple", "cli"}
       /\ calls[t].q = Words(<<"yesterday">>)) =>
      LET now == ReadAt(t, 1) IN
      /\ calls[t].res.k = "window"
      /\ calls[t].res.start.d = now.d - 1 /\ calls[t].res.start.s = 0
      /\ calls[t].res.end.d = now.d - 1 /\ calls[t].res.end.s = EndOfDay
      /\ DtLe(calls[t].res.start, calls[t].res.end)
      /\ DtLt(calls[t].res.end, Dt(now.d, 0, 0, FALSE))

\* a call on 'yesterday' made on January 1 returned December 31 of the year
\* before
C14_Witness ==
  \E t \in Threads :
    /\ Done(t) /\ calls[t].kind \in {"simple", "cli"}
    /\ calls[t].q = Words(<<"yesterday">>)
    /\ Month(ReadAt(t, 1)) = 1 /\ Day(ReadAt(t, 1)) = 1
    /\ calls[t].res.k = "window"
    /\ Year(calls[t].res.start) = Year(ReadAt(t, 1)) - 1
    /\ Month(calls[t].res.end) = 12 /\ Day(calls[t].res.end) = 31

\* the days 'last N <unit>' goes back: a week is 7 days, a month 30
DaysBack(q) == q[2].n * UnitDays(q[3].w)

IsLastNDays(q) == IsLastN(q) /\ q[3] = W("days") /\ q[2].len <= 3

IsInMonth(q) ==
  /\ Len(q) \in {2, 3}
  /\ q[1] \in {W("in"), W("during")} /\ q[2].k = "month"
  /\ Len(q) = 3 => (q[3].k = "num" /\ q[3].len = 4 /\ q[3].n >= 1)

\* the year of the phrase when given, the year of now otherwise
InMonthYear(q, now) == IF Len(q) = 3 THEN q[3].n ELSE Year(now)

\* C17: a simple or cli call on 'in <Month> [<Year>]' or 'during <Month>
\* [<Year>]', no other family matching, returns the full calendar month:
\* 00:00:00 of day 1 through 23:59:59 of the last day of that month (December
\* ending on December 31 of the same year), the year taken from the phrase when
\* given and from now otherwise.
C17_InMonthIsTheCalendarMonth ==
  \A t \in Threads :
    (Done(t) /\ calls[t].kind \in {"simple", "cli"} /\ IsInMonth(calls[t].q)) =>
      LET year  == InMonthYear(calls[t].q, ReadAt(t, 1))
          month == calls[t].q[2].m
      IN  /\ calls[t].res.k = "window"
          /\ calls[t].res.start.d = Ymd2Ord(year, month, 1)
          /\ calls[t].res.start.s = 0
          /\ calls[t].res.end.d = Ymd2Ord(year, month, DaysInMonth(year, month))
          /\ calls[t].res.end.s = EndOfDay

\* the question is one written date and nothing else
IsLoneDate(q) == Len(q) = 1 /\ q[1].k = "date"

\* the clock reading the fuzzy fallback of the call compared the date with
FallbackRead(t) == IF calls[t].kind = "simple" THEN LastRead(t) ELSE ReadAt(t, 1)

\* less than 3650 days lie between a and b, whichever is the earlier
WithinTenYears(a, b) == TdAbs(DtSub(a, b)).days < TenYears

\* C18: in a simple or advanced call on a question that is one written date,
\* the fuzzy fallback yields a candidate exactly when the date lies less than
\* 3650 days from now, before or after it alike, and that candidate is a point
\* in time (start = end = the date).
C18_FallbackWithinTenYears ==
  \A t \in Threads :
    (Done(t) /\ calls[t].kind \in {"simple", "advanced"} /\ IsLoneDate(calls[t].q)) =>
      LET parsed == FuzzyParse(calls[t].q, FallbackRead(t)) IN
      /\ \A i \in 1..Len(exprs[t]) :
           exprs[t][i].start_date = parsed /\ exprs[t][i].end_date = parsed
      /\ exprs[t] # <<>> <=> WithinTenYears(parsed, FallbackRead(t))

----------------------------------------------------------------------------
(* answer_question *)

\* the call reached the metric query: a window was parsed, the connection
\* opened and the metric is one of the four that are queried
Queried ==
  /\ ans.st = "done"
  /\ ~IsNone(ans.window)
  /\ ans.opened = 1
  /\ ans.metric \in {"sent", "opened", "replied", "bounced"}

\* the sent_at conditions and parameters a window calls for
ExpectedWhere(w) ==
  (IF IsNone(w.start) THEN <<>> ELSE <<"sent_at >= ?">>)
    \o (IF IsNone(w.end) THEN <<>> ELSE <<"sent_at <= ?">>)

ExpectedParams(w) ==
  (IF IsNone(w.start) THEN <<>> ELSE <<isoformat(w.start)>>)
    \o (IF IsNone(w.end) THEN <<>> ELSE <<isoformat(w.end)>>)

\* C19: when answer_question reaches the metric query, the query carries
\* exactly one condition per bound of the window that is not None, sent_at >= ?
\* with the start and sent_at <= ? with the end, in that order; for a
\* (None, None) window it therefore carries none, is still executed, and
\* selects every row of the table.
C19_WindowBoundsBecomeConditions ==
  Queried =>
    /\ Len(ans.executed) = 1
    /\ ans.executed[1].k = "metric"
    /\ ans.executed[1].where = ExpectedWhere(ans.window)
    /\ ans.executed[1].params = ExpectedParams(ans.window)
    /\ (IsNone(ans.window.start) /\ IsNone(ans.window.end)) =>
         /\ ans.executed[1].where = <<>>
         /\ ans.executed[1].rows = EmailEvents

\* a question without a time expression was answered from all rows
C19_Witness ==
  /\ Queried
  /\ IsNone(ans.window.start) /\ IsNone(ans.window.end)
  /\ ans.executed[1].rows = EmailEvents
  /\ ~IsRaise(ans.ret) /\ ans.ret.text = "answer"

\* C20: a statement reaches the database through run_sql_readonly only if
\* is_safe_select accepts it; for a statement it rejects, run_sql_readonly
\* returns ([], [], 'Unsafe or non-SELECT SQL was rejected.'), no connection
\* is opened and nothing is executed during the whole call of answer_question.
C20_RejectedSqlNeverRuns ==
  /\ \A i \in 1..Len(ans.executed) :
       ans.executed[i].k = "sql" => is_safe_select(ans.executed[i].text)
  /\ (ans.st = "done" /\ ans.sql # <<>> /\ ~is_safe_select(ans.sql)) =>
       /\ ans.sqlres = SqlResult(<<>>, <<>>, "Unsafe or non-SELECT SQL was rejected.")
       /\ ans.opened = 0
       /\ ans.executed = <<>>

\* a generated statement was rejected and the call ended without the database
C20_Witness ==
  /\ ans.st = "done"
  /\ ans.sql # <<>> /\ ~is_safe_select(ans.sql)
  /\ ans.sqlres = SqlResult(<<>>, <<>>, "Unsafe or non-SELECT SQL was rejected.")
  /\ ans.opened = 0

----------------------------------------------------------------------------
(* is_safe_select *)

\* run_sql_readonly went past the safety check with the generated text
Accepted ==
  /\ ans.st = "done"
  /\ ans.sql # <<>>
  /\ ans.sqlres # SqlResult(<<>>, <<>>, "Unsafe or non-SELECT SQL was rejected.")

\* the words no read-only statement may hold: mutation, DDL, transaction,
\* extension loading, and the system tables
ForbiddenWords ==
  {"insert", "update", "delete", "drop", "alter", "create", "truncate", "replace",
   "attach", "detach", "vacuum", "reindex", "pragma", "begin", "commit", "rollback",
   "savepoint", "release", "load_extension", "sqlite_master", "sqlite_temp_master",
   "sqlite_sequence"}

\* C21: every text is_safe_select accepts begins with SELECT, holds no
\* mutation, DDL, transaction or extension-loading keyword and no system
\* table, and is one statement, not several separated by semicolons.
C21_AcceptedIsSingleSelect ==
  Accepted =>
    /\ ans.sql[1] = "select"
    /\ \A i \in 1..Len(ans.sql) : ans.sql[i] \notin ForbiddenWords
    /\ StatementCount(ans.sql) = 1

----------------------------------------------------------------------------
(* The text-generation service *)

\* the raw result handed back word for word
RawUnchanged ==
  svc.result.value.formatted_text = [k |-> "text", text |-> svc.raw, natural |-> FALSE]

C23_OneNowPerCall ==
  \A t \in Threads :
    (Done(t) /\ calls[t].kind \in Kinds) =>
      calls[t].res = AloneAt(calls[t].kind, calls[t].q, ReadAt(t, 1))

\* the position of the first candidate of the highest confidence
FirstBest(l) ==
  CHOOSE i \in 1..Len(l) :
    /\ l[i].confidence = MaxConfidence(l)
    /\ \A j \in 1..(i - 1) : l[j].confidence < l[i].confidence

\* every two equal-confidence elements of ranked stand in an order in which
\* they stand in collected
KeepsRegistrationOrder(collected, ranked) ==
  \A i, j \in 1..Len(ranked) :
    (i < j /\ ranked[i].confidence = ranked[j].confidence) =>
      \E a, b \in 1..Len(collected) :
        a < b /\ collected[a] = ranked[i] /\ collected[b] = ranked[j]

\* C24: a SimpleTimeParser call that collected candidates and returns a window
\* returns the window of the earliest-registered candidate of the highest
\* confidence, and deduplication and sort leave candidates of equal confidence
\* in the order of their registration.
C24_EarlierFamilyWins ==
  \A t \in Threads :
    (/\ Done(t) /\ calls[t].kind = "simple"
     /\ calls[t].res.k = "window" /\ Len(exprs[t]) > 0) =>
      /\ calls[t].res = Window(exprs[t][FirstBest(exprs[t])].start_date,
                               exprs[t][FirstBest(exprs[t])].end_date)
      /\ KeepsRegistrationOrder(exprs[t], RankExpressions(exprs[t]).v)

\* two families of the same, highest confidence gave different windows that
\* are no duplicates, and the earlier one's window was returned
C24_Witness ==
  \E t \in Threads :
    /\ Done(t) /\ calls[t].kind = "simple" /\ calls[t].res.k = "window"
    /\ \E i, j \in 1..Len(exprs[t]) :
         /\ i < j
         /\ exprs[t][i].confidence = MaxConfidence(exprs[t])
         /\ exprs[t][j].confidence = MaxConfidence(exprs[t])
         /\ DupCheck(exprs[t][j], exprs[t][i]) = "distinct"
         /\ calls[t].res = Window(exprs[t][i].start_date, exprs[t][i].end_date)
         /\ calls[t].res # Window(exprs[t][j].start_date, exprs[t][j].end_date)

DateFuncs ==
  {"_parse_since", "_parse_between", "_parse_from_to", "_parse_from_until",
   "_parse_on_date"}

\* the table entries that match q and whose resolver finds a date fragment
\* that does not parse
FailedEntries(q, now) ==
  {i \in Matching(q) :
     /\ PatternTable[i].func \in DateFuncs
     /\ \E c \in DOMAIN Search(PatternTable[i].re, q).g :
          IsFail(FuzzyParse(Search(PatternTable[i].re, q).g[c], now))}

\* the pattern table in which the entries of S match no text
TableUnmatched(S) ==
  [i \in 1..Len(PatternTable) |->
     IF i \in S THEN Pat(Fixed(<<Ws({})>>, <<>>), PatternTable[i].func, PatternTable[i].conf)
     ELSE PatternTable[i]]

\* the head words of the cli's date patterns that match q with a date that
\* does not parse
CliFailedHeads(q, now) ==
  {h \in {"since", "on"} :
     LET m == Search(Fixed(<<Ws({h}), DateEl>>, <<2>>), q)
     IN  m.found /\ IsFail(FuzzyParse(m.g[1], now))}
  \cup
  {r[1] : r \in {r \in {<<"between", "and">>, <<"from", "to">>, <<"from", "until">>} :
     LET m == DatedRange(r[1], r[2], q)
     IN  m.found /\ (IsFail(FuzzyParse(m.g[1], now)) \/ IsFail(FuzzyParse(m.g[2], now)))}}

\* q with the words of S replaced by a word no pattern knows
WithoutWords(q, S) ==
  [i \in 1..Len(q) |-> IF q[i].k = "w" /\ q[i].w \in S THEN W("x") ELSE q[i]]

\* C25: a call in which a matched 'since', 'on', 'between' or 'from' pattern
\* holds a date fragment that does not parse returns what it returns when that
\* pattern does not match at all: the other families are tried and ranked the
\* same (SimpleTimeParser with all its clock reads at one instant, and the cli).
C25_BadFragmentOnlyDropsItsCandidate ==
  \A t \in Threads :
    Done(t) =>
      /\ (calls[t].kind = "simple" /\ OneRead(t)
            /\ FailedEntries(calls[t].q, ReadAt(t, 1)) # {})
           => calls[t].res =
                SimpleAlone(TableUnmatched(FailedEntries(calls[t].q, ReadAt(t, 1))),
                            calls[t].q,
                            [i \in 1..(Len(PatternTable) + 1) |-> ReadAt(t, 1)])
      /\ (calls[t].kind = "cli" /\ CliFailedHeads(calls[t].q, ReadAt(t, 1)) # {})
           => calls[t].res =
                extract_time_window_advanced(
                  WithoutWords(calls[t].q, CliFailedHeads(calls[t].q, ReadAt(t, 1))),
                  ReadAt(t, 1))

\* a SimpleTimeParser call with a date fragment that does not parse returned
\* the window of another family that matched
C25_Witness ==
  \E t \in Threads :
    /\ Done(t) /\ calls[t].kind = "simple" /\ OneRead(t)
    /\ FailedEntries(calls[t].q, ReadAt(t, 1)) # {}
    /\ Matching(calls[t].q) \ FailedEntries(calls[t].q, ReadAt(t, 1)) # {}
    /\ calls[t].res.k = "window" /\ ~IsNone(calls[t].res.start)

\* the steps of answer_question that follow the SQL branch
IntentSteps == {"keywords", "parse_with_llm", "parse_time_simple", "connect"}

\* C26: answer_question returns 'Please provide a question.' on an empty
\* question before any step; otherwise generate_sql is its first step; keyword
\* and LLM classification, the time parser and the metric query are reached
\* only when generate_sql gave no SQL text (an error or an empty text); with an
\* SQL text the call consists of generate_sql and run_sql_readonly and nothing
\* but that text is executed.
C26_SqlFirstThenIntent ==
  /\ (ans.st = "done" /\ ans.q = <<>>) =>
       /\ ans.steps = <<>> /\ ans.external = 0 /\ ans.opened = 0
       /\ ans.ret = [k |-> "text", text |-> "Please provide a question.",
                     natural |-> FALSE]
  /\ ans.steps # <<>> => ans.steps[1] = "generate_sql"
  /\ (\E i \in 1..Len(ans.steps) : ans.steps[i] \in IntentSteps) => ans.sql = <<>>
  /\ (ans.st = "done" /\ ans.sql # <<>>) =>
       /\ ans.steps = <<"generate_sql", "run_sql_readonly">>
       /\ \A i \in 1..Len(ans.executed) :
            ans.executed[i] = [k |-> "sql", text |-> ans.sql]
       /\ ans.metric = "None" /\ ans.window = None

\* with the key set generate_sql sent its request and gave no SQL text, and
\* the call went on to classify the metric and parse the time window
C26_Witness ==
  /\ ans.st = "done" /\ ans.configured /\ ans.sql = <<>>
  /\ ans.external >= 1
  /\ \E i \in 1..Len(ans.steps) : ans.steps[i] = "parse_time_simple"

\* C27: in a call of answer_question every connection opened has been closed
\* when the call returns or raises, on the SQL branch as on the metric branch:
\* as many connections are closed as were opened, at most one is opened, and a
\* statement is executed only on a connection that was opened.
C27_ConnectionsClosed ==
  /\ ans.closed <= ans.opened
  /\ ans.opened <= 1
  /\ ans.st = "done" => ans.closed = ans.opened
  /\ ans.executed # <<>> => ans.opened = 1

\* the statement failed or the call raised after opening its connection, and
\* the connection was closed
C27_Witness ==
  /\ ans.st = "done" /\ ans.opened = 1 /\ ans.closed = 1
  /\ \/ IsRaise(ans.ret)
     \/ (ans.sqlres.k = "result" /\ ans.sqlres.err # "")

\* a candidate of a pattern family: the fallback's confidence is 0.6, every
\* pattern's is 0.7 or more
FromPattern(e) == e.confidence > 60

\* the variant of the fallback stage that always collects the fallback
\* candidate
AlwaysFallback(text, now, expressions) ==
  LET Collect(expr) ==
        IF expr.k = "expr" THEN Append(expressions, expr) ELSE expressions
  IN  Collect(parse_with_dateutil(text, now))

\* C28: a SimpleTimeParser call returns the (start, end) that the variant
\* returns which runs the fuzzy fallback after the pattern loop in every call,
\* on the same pattern candidates and at the same clock reading.
C28_FallbackOnlyWhenEmpty ==
  \A t \in Threads :
    (Done(t) /\ calls[t].kind = "simple") =>
      calls[t].res =
        BestWindow(RankExpressions(
          AlwaysFallback(calls[t].q, LastRead(t), SelectSeq(exprs[t], FromPattern))))

\* pattern families gave candidates, the fallback would have given one more,
\* and the window returned is a pattern candidate's
C28_Witness ==
  \E t \in Threads :
    /\ Done(t) /\ calls[t].kind = "simple"
    /\ SelectSeq(exprs[t], FromPattern) # <<>>
    /\ parse_with_dateutil(calls[t].q, LastRead(t)).k = "expr"
    /\ calls[t].res.k = "window"
    /\ calls[t].res # Window(parse_with_dateutil(calls[t].q, LastRead(t)).start_date,
                             parse_with_dateutil(calls[t].q, LastRead(t)).end_date)

\* a phrase of a family that both cli.extract_time_window_advanced and
\* SimpleTimeParser know
IsSharedPhrase(p) ==
  \/ p \in {Words(<<"last", "week">>), Words(<<"this", "week">>),
            Words(<<"last", "month">>), Words(<<"this", "month">>),
            Words(<<"last", "year">>), Words(<<"this", "year">>),
            Words(<<"yesterday">>), Words(<<"today">>)}
  \/ /\ Len(p) = 3 /\ p[2].k = "num" /\ p[2].len <= 3
     /\ \/ p[1] = W("last") /\ p[3] \in RelativeUnits
        \/ p[1] = W("past") /\ p[3] = W("days")
  \/ Len(p) = 2 /\ p[1] \in {W("since"), W("on")} /\ p[2].k = "date"
  \/ /\ Len(p) = 4 /\ p[2].k = "date" /\ p[4].k = "date"
     /\ <<p[1], p[3]>> \in {<<W("between"), W("and")>>, <<W("from"), W("to")>>}

\* q is one such phrase or two of them, one after the other
BuiltFromShared(q) ==
  \/ IsSharedPhrase(q)
  \/ \E i \in 1..(Len(q) - 1) :
       IsSharedPhrase(SubSeq(q, 1, i)) /\ IsSharedPhrase(SubSeq(q, i + 1, Len(q)))

\* the same date and the same second of the day, or both None
SameToSecond(a, b) ==
  IF IsNone(a) \/ IsNone(b) THEN a = b ELSE SameSecond(a, b) /\ a.tz = b.tz

\* the same outcome: the same exception, or windows equal to the second
WindowsAgree(a, b) ==
  IF a.k # "window" \/ b.k # "window" THEN a = b
  ELSE SameToSecond(a.start, b.start) /\ SameToSecond(a.end, b.end)

\* C29: on a question built from the phrase families both implementations
\* know, a call of cli.extract_time_window_advanced returns, to the second, the
\* window parse_time_simple returns at the same clock reading.
C29_CliAgreesWithSimple ==
  \A t \in Threads :
    (Done(t) /\ calls[t].kind = "cli" /\ BuiltFromShared(calls[t].q)) =>
      WindowsAgree(calls[t].res, AloneAt("simple", calls[t].q, ReadAt(t, 1)))

\* the candidates of a list
Members(l) == {l[i] : i \in 1..Len(l)}

\* C30: when _deduplicate_expressions returns, every candidate of the input
\* that is not in the returned list is a duplicate of a returned candidate of
\* at least its confidence, every returned candidate is a candidate of the
\* input, and none is returned twice.
C30_DroppedHasRetainedDuplicate ==
  (dd.st = "done" /\ dd.output.k = "list") =>
    /\ \A e \in Members(dd.input) \ Members(dd.output.v) :
         \E u \in Members(dd.output.v) :
           DupCheck(e, u) = "dup" /\ u.confidence >= e.confidence
    /\ Members(dd.output.v) \subseteq Members(dd.input)
    /\ \A i, j \in 1..Len(dd.output.v) : i < j => dd.output.v[i] # dd.output.v[j]

====
